---- MODULE Spec2Model ----
(***************************************************************************)
(* A model of @logistically/i18n-react-core: the TranslationCore state    *)
(* manager (src/src/core/TranslationCore.ts), its subscriber set, the     *)
(* Redux binding (ReduxAdapter and the translation slice), and the        *)
(* JavaScript run-to-completion execution of their code.                  *)
(*                                                                         *)
(* Execution model.  JavaScript is single threaded.  `stack` is the call  *)
(* stack: the activations that are suspended because a notification round *)
(* is running above them, and the rounds themselves; `microtasks` is the  *)
(* FIFO queue of continuations parked at an `await`.  One step of the     *)
(* model runs code from one listener that acts to the next, so everything *)
(* a listener may do while it is being notified (reentrancy) is a step of *)
(* its own, taken with the round it interrupts still on the stack.        *)
(*                                                                         *)
(* The Translation Engine (TranslationService) is an external            *)
(* collaborator: each of its methods returns its result or raises, the   *)
(* choice being nondeterministic.  Listeners are callbacks that return   *)
(* normally; while notified a listener may do nothing, call setLocale,   *)
(* subscribe another listener or call an unsubscribe function.           *)
(***************************************************************************)
EXTENDS Integers, Sequences, FiniteSets, TLC

VARIABLES
    config,         \* ReactTranslationConfig: [defaultLocale]
    state,          \* TranslationCore.state
    listeners,      \* TranslationCore.listeners, a Set in insertion order
    store,          \* the Redux store's state.translation
    storeListeners, \* the listeners the Redux store holds, in order
    stack,          \* suspended activations and rounds, the running one last
    microtasks,     \* continuations parked at an await, FIFO
    promises,       \* one record per async call made, in call order
    handle,         \* per listener, the unsubscribe function it was given:
                    \* "none", "held" (not called yet) or "called"
    reentries,      \* calls made so far by listeners while being notified
    obs,            \* what the most recent step did
    now,            \* the clock that Date.now() and performance.now() read
    coreAt,         \* the places where a reference to the manager is kept
    contextState,   \* ContextAdapter.state
    contextListeners \* ContextAdapter.listeners, a Set in insertion order

vars == <<config, state, listeners, store, storeListeners, stack, microtasks,
          promises, handle, reentries, obs, now, coreAt,
      contextState, contextListeners>>

----------------------------------------------------------------------------
(* Bounds of the model *)

\* async calls (setLocale, loadTranslations, initialize, reloadTranslations)
MaxCalls == 2
\* calls that listeners make while they are being notified
MaxReentry == 2
\* ticks of the clock
MaxClock == 1

----------------------------------------------------------------------------
(* Values *)

Undefined == "undefined"
Null == "null"
\* the locales the application and the listeners switch to
CallLocales == {"fr", "es"}
Keys == {"k1", "absent"}
Errors == {"E1", "E2"}
UserListeners == {"L1", "L2"}
Counts == {1, 2}

Range(s) == {s[i] : i \in 1..Len(s)}

Remove(s, x) == SelectSeq(s, LAMBDA y : y # x)

\* a || b of JavaScript, for strings that are undefined or non-empty
Or(a, b) == IF a = Undefined THEN b ELSE a

----------------------------------------------------------------------------
(* The Translation Engine (TranslationService of @logistically/i18n) *)

\* getKeys(locale)
EngineKeys(l) ==
    CASE l = "en" -> <<"k1", "k2">>
      [] l = "fr" -> <<"k1">>
      [] OTHER    -> <<"k2">>

\* translate(key, locale) when it does not raise: the text of a key the
\* locale has, the key itself otherwise
EngineTranslate(k, l) ==
    IF k \in Range(EngineKeys(l)) THEN <<l, k>> ELSE k

\* translatePlural(key, count, locale) when it does not raise
EngineTranslatePlural(k, n, l) ==
    IF k \in Range(EngineKeys(l)) THEN <<l, k, n>> ELSE k

----------------------------------------------------------------------------
(* State records *)

InitialState(cfg) ==
    [locale        |-> Or(cfg.defaultLocale, "en"),
     translations  |-> << >>,
     isLoading     |-> FALSE,
     error         |-> Null,
     isInitialized |-> FALSE]

NoState == [locale |-> "", translations |-> << >>, isLoading |-> FALSE,
            error |-> Null, isInitialized |-> FALSE]

\* getState(): { ...this.state }
getState == state

\* { ...this.state, ...updates }
Merge(s, updates) ==
    [f \in DOMAIN s |-> IF f \in DOMAIN updates THEN updates[f] ELSE s[f]]

\* an activation of a method, suspended at pc
Frame(k, pc, id, arg, out) ==
    [k |-> k, pc |-> pc, id |-> id, arg |-> arg, out |-> out, reg |-> "",
     todo |-> << >>, targets |-> {}, held |-> {}, gone |-> {}, joined |-> {},
     fresh |-> TRUE, produced |-> NoState, inv |-> << >>]

NoRound == Frame("", "", 0, "", "")

\* the listeners whose unsubscribe function has not been called
Held == {l \in UserListeners : handle[l] = "held"}

\* a notification round of the registry reg ("core": the manager's Set,
\* "store": the Redux store) over its listeners ls, started by the update
\* that produced s (arg: the manager's state before that update).  todo:
\* the listeners yet to visit; targets: the
\* listeners registered when the round started; held: the listeners whose
\* unsubscribe function had not been called then; gone, joined: the
\* listeners removed from, added to the registry while the round runs;
\* fresh: no update of the manager's state was made since the round
\* started; inv: the invocations made so far
Round(reg, s, ls) ==
    [k |-> "notify", pc |-> "forEach", id |-> 0, arg |-> "", out |-> "",
     reg |-> reg, todo |-> ls, targets |-> Range(ls), held |-> Held,
     gone |-> {}, joined |-> {}, fresh |-> TRUE, produced |-> s,
     inv |-> << >>]

\* notifyListeners(): this.listeners.forEach(listener =>
\* listener(this.getState())), run by the update that produced s
notifyListeners(s, ls) == Round("core", s, ls)

\* what a step did.  call, arg: the method called by the application or by
\* a listener; engine: "none", or whether the Engine calls made "returned"
\* or one "raised"; result: the value returned; invoked: the invocations of
\* listeners made; round: the round that ended; settled: the promise that
\* settled; loaded: the locale of the loadTranslations call that returned
\* without raising; delivered: for each listener under observation, the
\* snapshot it was called with last since it subscribed
Observed(delivered) ==
    [call |-> "", arg |-> "", engine |-> "none", result |-> "",
     invoked |-> << >>, round |-> NoRound, settled |-> 0, loaded |-> "",
     delivered |-> delivered]

\* a listener that subscribes has been delivered nothing yet
Subscriptions == {"subscribe", "context.subscribe"}

Obs(call, arg, engine, result) ==
    [Observed([l \in DOMAIN obs.delivered |->
                  IF call \in Subscriptions /\ l = arg
                  THEN NoState ELSE obs.delivered[l]])
        EXCEPT !.call = call, !.arg = arg, !.engine = engine,
               !.result = result]

\* a step that is no call of the application and calls no Engine method
Step == Obs("", "", "none", "")

\* then: the continuations of the callers that await the promise
Promise(op, arg, st, ov) ==
    [op |-> op, arg |-> arg, st |-> st, err |-> Null, eng |-> "none",
     ov |-> ov, then |-> << >>]

Pending(ps) == {i \in 1..Len(ps) : ps[i].st = "pending"}

\* a new async call begins: it overlaps every call that has not settled
Overlap(ps) ==
    [i \in 1..Len(ps) |->
        IF ps[i].st = "pending" THEN [ps[i] EXCEPT !.ov = TRUE] ELSE ps[i]]

NewPromise(ps, op, arg, st) ==
    Append(Overlap(ps), Promise(op, arg, st, Pending(ps) # {}))

\* the continuations that await promise id, resumed with its outcome
Reactions(ps, id, out) ==
    [i \in 1..Len(ps[id].then) |-> [ps[id].then[i] EXCEPT !.out = out]]

\* an async method whose promise stays pending when it throws
SettleOnSuccessOnly(ps, id, out) ==
    IF out = "ok" THEN [ps EXCEPT ![id].st = "resolved"] ELSE ps

\* an async method returns (out = "ok") or throws out
Settle(ps, id, out) ==
    [ps EXCEPT ![id].st  = IF out = "ok" THEN "resolved" ELSE "rejected",
               ![id].err = IF out = "ok" THEN Null ELSE out]

----------------------------------------------------------------------------
(* The Redux translation slice and the adapter's view of it *)

\* translationSlice.initialState; Date.now() is read when the slice is
\* created, before the clock of the model starts
ReduxInitialState ==
    [locale        |-> "en",
     translations  |-> << >>,
     isLoading     |-> FALSE,
     error         |-> Null,
     isInitialized |-> FALSE,
     lastUpdated   |-> 0,
     pendingActions |-> << >>,
     performanceMetrics |-> [translationTime  |-> 0,
                             cacheHitRate     |-> 0,
                             lastCacheCleanup |-> 0]]

\* the message of the error the thunks throw when they find no manager
NotInitialized == "Translation core not initialized"

\* the native error values: what the Engine raises, what the thunks throw
NativeErrors == Errors \cup {NotInitialized}

\* serializeError that keeps the Error object
serializeErrorKeepsError(e) ==
    IF e \in {Null, Undefined} THEN Null ELSE e

\* serializeError(error): { message, name, stack }; null for null and for
\* undefined
serializeError(e) ==
    IF e \in {Null, Undefined} THEN Null ELSE "{message: " \o e \o "}"

\* the plain records { message, name, stack }
SerializableErrors == {"{message: " \o e \o "}" : e \in NativeErrors}

\* deserializeError(serializedError): a new Error object with the message
deserializeError(se) ==
    IF se = Null THEN Null
    ELSE "new Error(" \o
            (CHOOSE e \in NativeErrors : serializeError(e) = se) \o ")"

Action(type, payload) == [type |-> type, payload |-> payload]

\* addPendingAction without its test: state.pendingActions.push(id)
pushPendingActionAlways(pending, id) == Append(pending, id)

\* if (!state.pendingActions.includes(id)) state.pendingActions.push(id),
\* of addPendingAction and of the pending cases of the extraReducers
pushPendingAction(pending, id) ==
    IF id \in Range(pending) THEN pending ELSE Append(pending, id)

\* the case reducers of translationSlice and its extraReducers for the
\* pending, fulfilled and rejected actions of the two thunks, whose payload
\* here is the identifier the case uses ('loadTranslations' or
\* 'reloadTranslations') and, when rejected, action.error.  Date.now() is
\* the clock
translationReducer(s, a) ==
    CASE a.type = "setLocale"       ->
            [s EXCEPT !.locale = a.payload, !.lastUpdated = now]
      [] a.type = "setLoading"      -> [s EXCEPT !.isLoading = a.payload]
      [] a.type = "setError"        ->
            [s EXCEPT !.error = IF a.payload \in NativeErrors
                                THEN serializeError(a.payload)
                                ELSE Or(a.payload, Null),
                      !.lastUpdated = now]
      [] a.type = "setInitialized"  -> [s EXCEPT !.isInitialized = a.payload]
      [] a.type = "setTranslations" ->
            [s EXCEPT !.translations = a.payload, !.lastUpdated = now]
      [] a.type = "setPerformanceMetrics" ->
            [s EXCEPT !.performanceMetrics = Merge(@, a.payload)]
      [] a.type = "updateLastUpdated" -> [s EXCEPT !.lastUpdated = now]
      [] a.type = "clearCache"      ->
            [s EXCEPT !.translations = << >>,
                      !.performanceMetrics.lastCacheCleanup = now,
                      !.lastUpdated = now]
      [] a.type = "addPendingAction" ->
            [s EXCEPT !.pendingActions = pushPendingAction(@, a.payload)]
      [] a.type = "removePendingAction" ->
            [s EXCEPT !.pendingActions = Remove(@, a.payload)]
      [] a.type = "pending"         ->
            [s EXCEPT !.isLoading = TRUE,
                      !.error = Null,
                      !.pendingActions = pushPendingAction(@, a.payload.id)]
      [] a.type = "fulfilled"       ->
            [s EXCEPT !.isLoading = FALSE,
                      !.error = Null,
                      !.pendingActions = Remove(@, a.payload.id),
                      !.lastUpdated = now]
      [] a.type = "rejected"        ->
            [s EXCEPT !.isLoading = FALSE,
                      !.error = serializeError(a.payload.error),
                      !.pendingActions = Remove(@, a.payload.id),
                      !.lastUpdated = now]
      [] OTHER                      -> s

\* ReduxAdapter.getState(): { ...reduxState, error: deserializeError(...) }
adapterGetState == [store EXCEPT !.error = deserializeError(@)]

\* MirrorActions without the dispatch of setError
MirrorActionsWithoutError(s) ==
    <<Action("setTranslations", s.translations),
      Action("setLocale", s.locale),
      Action("setLoading", s.isLoading),
      Action("setInitialized", s.isInitialized)>>

\* MirrorActions with setLocale dispatched first
MirrorActionsLocaleFirst(s) ==
    <<Action("setLocale", s.locale),
      Action("setTranslations", s.translations),
      Action("setLoading", s.isLoading),
      Action("setError", s.error),
      Action("setInitialized", s.isInitialized)>>

\* the dispatches the adapter's listener on the manager makes, in order
MirrorActions(s) ==
    <<Action("setTranslations", s.translations),
      Action("setLocale", s.locale),
      Action("setLoading", s.isLoading),
      Action("setError", s.error),
      Action("setInitialized", s.isInitialized)>>

----------------------------------------------------------------------------
(* TranslationCore: the segments of its methods, each running up to the   *)
(* next setState.  `stk` is the call stack below the activation: empty   *)
(* for a call made by the application, the stack of the running          *)
(* notification round for a call made by a listener.                     *)

\* the rounds on the stack are no longer fresh
Stale(stk) ==
    [i \in 1..Len(stk) |->
        IF stk[i].k \in {"notify", "mirror"}
        THEN [stk[i] EXCEPT !.fresh = FALSE]
        ELSE stk[i]]

\* setState that notifies without storing the merged state
setStateNotStored(updates, frame, stk) ==
    LET s1 == Merge(state, updates) IN
    /\ state' = state
    /\ stack' = Stale(stk) \o <<frame, notifyListeners(s1, listeners)>>

\* setState(updates) called by the activation `frame` on top of `stk`:
\* merges, then runs notifyListeners() above the caller
setState(updates, frame, stk) ==
    LET s1 == Merge(state, updates) IN
    /\ state' = s1
    /\ stack' = Stale(stk) \o
                    <<frame,
                      [notifyListeners(s1, listeners) EXCEPT !.arg = state]>>

\* setLocale whose first update leaves the locale out
setLocaleKeepsLocale(locale, stk) ==
    IF state.locale = locale
    THEN /\ promises' = NewPromise(promises, "setLocale", locale, "resolved")
         /\ stack' = stk
         /\ UNCHANGED <<state, microtasks>>
    ELSE /\ promises' = NewPromise(promises, "setLocale", locale, "pending")
         /\ setState([isLoading |-> TRUE, error |-> Null],
                     [Frame("setLocale", "load", Len(promises) + 1, locale, "")
                        EXCEPT !.produced = state],
                     stk)
         /\ UNCHANGED microtasks

\* setLocale without its early return
setLocaleAlwaysLoads(locale, stk) ==
    /\ promises' = NewPromise(promises, "setLocale", locale, "pending")
    /\ setState([locale |-> locale, isLoading |-> TRUE, error |-> Null],
                [Frame("setLocale", "load", Len(promises) + 1, locale, "")
                   EXCEPT !.produced = state],
                stk)
    /\ UNCHANGED microtasks

\* setLocale whose first update leaves the error as it is
setLocaleKeepsError(locale, stk) ==
    IF state.locale = locale
    THEN /\ promises' = NewPromise(promises, "setLocale", locale, "resolved")
         /\ stack' = stk
         /\ UNCHANGED <<state, microtasks>>
    ELSE /\ promises' = NewPromise(promises, "setLocale", locale, "pending")
         /\ setState([locale |-> locale, isLoading |-> TRUE],
                     [Frame("setLocale", "load", Len(promises) + 1, locale, "")
                        EXCEPT !.produced = state],
                     stk)
         /\ UNCHANGED microtasks

\* setLocale(locale), up to its first setState; the activation remembers the
\* state the call found
setLocale(locale, stk) ==
    IF state.locale = locale
    THEN /\ promises' = NewPromise(promises, "setLocale", locale, "resolved")
         /\ stack' = stk
         /\ UNCHANGED <<state, microtasks>>
    ELSE /\ promises' = NewPromise(promises, "setLocale", locale, "pending")
         /\ setState([locale |-> locale, isLoading |-> TRUE, error |-> Null],
                     [Frame("setLocale", "load", Len(promises) + 1, locale, "")
                        EXCEPT !.produced = state],
                     stk)
         /\ UNCHANGED microtasks

\* loadTranslations whose first update also switches to the locale it loads
loadTranslationsSetsLocale(locale, id, stk) ==
    setState([locale |-> locale, isLoading |-> TRUE, error |-> Null],
             Frame("loadTranslations", "engine", id, locale, ""), stk)

\* loadTranslations(locale), up to its first setState; id is the promise of
\* the call it belongs to
loadTranslations(locale, id, stk) ==
    setState([isLoading |-> TRUE, error |-> Null],
             Frame("loadTranslations", "engine", id, locale, ""), stk)

\* initialize(initialLocale), up to its first setState
initialize(initialLocale, stk) ==
    LET locale == Or(Or(initialLocale, config.defaultLocale), "en") IN
    /\ promises' = NewPromise(promises, "initialize", initialLocale, "pending")
    /\ setState([isLoading |-> TRUE, error |-> Null],
                Frame("initialize", "setLocale", Len(promises) + 1, locale, ""),
                stk)
    /\ UNCHANGED microtasks

\* reloadTranslations(): await this.loadTranslations(this.state.locale)
reloadTranslations(stk) ==
    /\ promises' = NewPromise(promises, "reloadTranslations", "", "pending")
    /\ loadTranslations(state.locale, Len(promises) + 1,
            stk \o <<Frame("reloadTranslations", "await", Len(promises) + 1,
                           state.locale, "")>>)
    /\ UNCHANGED microtasks

\* the translations object loadTranslations builds: keys.forEach(key =>
\* translations[key] = translate(key, locale))
RECURSIVE BuildTranslations(_, _, _)
BuildTranslations(keys, locale, acc) ==
    IF keys = << >> THEN acc
    ELSE LET k == Head(keys) IN
         BuildTranslations(Tail(keys), locale,
            [x \in DOMAIN acc \cup {k} |->
                IF x = k THEN EngineTranslate(k, locale) ELSE acc[x]])

\* translate that lets the Engine's exception escape
translateRethrows(key, raises) ==
    IF raises THEN "throw" ELSE EngineTranslate(key, state.locale)

\* translate(key): the Engine's result, or the key when the Engine raises
translate(key, raises) ==
    IF raises THEN key ELSE EngineTranslate(key, state.locale)

\* translatePlural(key, count)
translatePlural(key, count, raises) ==
    IF raises THEN key ELSE EngineTranslatePlural(key, count, state.locale)

\* clearCache that also empties the state's translations
clearCacheEmptiesTranslations ==
    /\ state' = [state EXCEPT !.translations = << >>]
    /\ UNCHANGED listeners

\* clearCache(): this.translationService.clearCache()
clearCache ==
    UNCHANGED <<state, listeners>>

\* subscribe(listener): this.listeners.add(listener).  A forEach that is
\* running over the Set visits the entry added
subscribe(l, stk) ==
    /\ listeners' = Append(listeners, l)
    /\ handle' = [handle EXCEPT ![l] = "held"]
    /\ stack' = [i \in 1..Len(stk) |->
                    IF stk[i].k = "notify" /\ stk[i].reg = "core"
                    THEN [stk[i] EXCEPT !.todo = Append(@, l),
                                        !.joined = @ \cup {l}]
                    ELSE stk[i]]

\* an unsubscribe function that clears the Set
unsubscribeClears(l, stk) ==
    /\ listeners' = << >>
    /\ handle' = [handle EXCEPT ![l] = "called"]
    /\ stack' = [i \in 1..Len(stk) |->
                    IF stk[i].k = "notify" /\ stk[i].reg = "core"
                    THEN [stk[i] EXCEPT !.todo = << >>,
                                        !.gone = @ \cup {l}]
                    ELSE stk[i]]

\* the function subscribe returned: this.listeners.delete(listener).  A
\* forEach that is running over the Set skips the entry deleted
unsubscribe(l, stk) ==
    /\ listeners' = Remove(listeners, l)
    /\ handle' = [handle EXCEPT ![l] = "called"]
    /\ stack' = [i \in 1..Len(stk) |->
                    IF stk[i].k = "notify" /\ stk[i].reg = "core"
                    THEN [stk[i] EXCEPT !.todo = Remove(@, l),
                                        !.gone = @ \cup {l}]
                    ELSE stk[i]]

\* destroy(): this.listeners.clear(); this.translationService.clearCache()
destroy ==
    /\ listeners' = << >>
    /\ UNCHANGED <<state, stack, microtasks, promises, handle>>

----------------------------------------------------------------------------
(* Calls made by the application: the call stack is empty *)

Idle == stack = << >>

CanCall == Idle /\ Len(promises) < MaxCalls

\* nothing of the Redux binding changes, and the clock is not read
NoDispatch == UNCHANGED <<store, storeListeners, now, coreAt,
      contextState, contextListeners>>

Quiet == UNCHANGED <<config, listeners, handle, reentries>> /\ NoDispatch

CallSetLocale(l) ==
    /\ CanCall
    /\ setLocale(l, << >>)
    /\ obs' = Obs("setLocale", l, "none", "")
    /\ Quiet

CallLoadTranslations(l) ==
    /\ CanCall
    /\ promises' = NewPromise(promises, "loadTranslations", l, "pending")
    /\ loadTranslations(l, Len(promises) + 1, << >>)
    /\ obs' = Obs("loadTranslations", l, "none", "")
    /\ UNCHANGED microtasks
    /\ Quiet

CallInitialize(l) ==
    /\ CanCall
    /\ initialize(l, << >>)
    /\ obs' = Obs("initialize", l, "none", "")
    /\ Quiet

CallReloadTranslations ==
    /\ CanCall
    /\ reloadTranslations(<< >>)
    /\ obs' = Obs("reloadTranslations", "", "none", "")
    /\ Quiet

CallTranslate(key, raises) ==
    /\ Idle
    /\ obs' = Obs("translate", key, IF raises THEN "raised" ELSE "returned",
                  translate(key, raises))
    /\ UNCHANGED <<state, stack, microtasks, promises>>
    /\ Quiet

CallTranslatePlural(key, count, raises) ==
    /\ Idle
    /\ obs' = Obs("translatePlural", <<key, count>>,
                  IF raises THEN "raised" ELSE "returned",
                  translatePlural(key, count, raises))
    /\ UNCHANGED <<state, stack, microtasks, promises>>
    /\ Quiet

\* clearCache() returns, or the Engine's clearCache raises and it throws
CallClearCache(raises) ==
    /\ Idle
    /\ clearCache
    /\ obs' = Obs("clearCache", "", IF raises THEN "raised" ELSE "returned",
                  IF raises THEN "throw" ELSE "")
    /\ UNCHANGED <<config, stack, microtasks, promises, handle, reentries>>
    /\ NoDispatch

CallSubscribe(l) ==
    /\ Idle
    /\ l \notin Range(listeners)
    /\ handle[l] # "held"
    /\ subscribe(l, << >>)
    /\ obs' = Obs("subscribe", l, "none", "")
    /\ UNCHANGED <<config, state, microtasks, promises, reentries>>
    /\ NoDispatch

CallUnsubscribe(l) ==
    /\ Idle
    /\ handle[l] = "held"
    /\ unsubscribe(l, << >>)
    /\ obs' = Obs("unsubscribe", l, "none", "")
    /\ UNCHANGED <<config, state, microtasks, promises, reentries>>
    /\ NoDispatch

CallDestroy ==
    /\ Idle
    /\ destroy
    /\ obs' = Obs("destroy", "", "returned", "")
    /\ UNCHANGED <<config, reentries>>
    /\ NoDispatch

----------------------------------------------------------------------------
(* A notification round of the manager: listeners.forEach(listener =>     *)
(* listener(this.getState())).  A step runs the round up to and including *)
(* the next listener that calls the manager or the Set; or it runs the    *)
(* round to its end, setState returns, and the method that called it runs *)
(* up to its next setState.                                               *)

Top == stack[Len(stack)]

Below == SubSeq(stack, 1, Len(stack) - 1)

Notifying == stack # << >> /\ Top.k = "notify"

\* a forEach that calls every listener with the state its round began with
SnapshotOfRound(reg) == stack[Len(stack)].produced

\* what a listener of the registry is called with
Snapshot(reg) ==
    IF reg = "core" THEN getState
    ELSE IF reg = "context" THEN contextState
    ELSE adapterGetState

\* the invocations of the next n listeners, each with a copy of the state
\* as it is when the listener is invoked; fresh: no update was made since
\* the round started
Invocations(n) ==
    [i \in 1..n |-> [listener |-> Top.todo[i],
                     snapshot |-> Snapshot(Top.reg),
                     fresh    |-> Top.fresh]]

\* the round after its next n listeners have been invoked
Taken(n) == [Top EXCEPT !.todo = SubSeq(@, n + 1, Len(@)),
                        !.inv = @ \o Invocations(n)]

\* the snapshots delivered last, after the invocations invs
Deliver(delivered, invs) ==
    [l \in DOMAIN delivered |->
        IF \E i \in 1..Len(invs) : invs[i].listener = l
        THEN invs[CHOOSE i \in 1..Len(invs) : invs[i].listener = l].snapshot
        ELSE delivered[l]]

Notified(call, arg, n) ==
    [Obs(call, arg, "none", "") EXCEPT
        !.invoked = Invocations(n),
        !.delivered = Deliver(@, Invocations(n))]

\* the listeners before the n-th return at once; the n-th, a listener of
\* the application, acts
Acting(n) ==
    /\ Notifying
    /\ n \in 1..Len(Top.todo)
    /\ \A i \in 1..n : Top.todo[i] \in UserListeners
    /\ reentries < MaxReentry
    /\ reentries' = reentries + 1

\* the n-th listener calls setLocale(l)
ListenerSetsLocale(n, l) ==
    /\ Acting(n)
    /\ Top.reg = "core"
    /\ Len(promises) < MaxCalls
    /\ setLocale(l, Below \o <<Taken(n)>>)
    /\ obs' = Notified("setLocale", l, n)
    /\ UNCHANGED <<config, listeners, handle>>
    /\ NoDispatch

\* the n-th listener subscribes another listener
ListenerSubscribes(n, l) ==
    /\ Acting(n)
    /\ Top.reg = "core"
    /\ l \notin Range(listeners)
    /\ handle[l] # "held"
    /\ subscribe(l, Below \o <<Taken(n)>>)
    /\ obs' = Notified("subscribe", l, n)
    /\ UNCHANGED <<config, state, microtasks, promises>>
    /\ NoDispatch

\* the n-th listener calls an unsubscribe function, its own or another's
ListenerUnsubscribes(n, l) ==
    /\ Acting(n)
    /\ Top.reg = "core"
    /\ handle[l] = "held"
    /\ unsubscribe(l, Below \o <<Taken(n)>>)
    /\ obs' = Notified("unsubscribe", l, n)
    /\ UNCHANGED <<config, state, microtasks, promises>>
    /\ NoDispatch

\* the method that called setState or dispatch, and the stack below it
Caller == stack[Len(stack) - 1]

Rest == SubSeq(stack, 1, Len(stack) - 2)

\* every listener left, all of them listeners of the application, returns
\* at once, forEach ends, and setState returns to the method k at pc
Returning(k, pc) ==
    /\ Len(stack) > 1
    /\ Notifying
    /\ Top.reg = "core"
    /\ \A i \in 1..Len(Top.todo) : Top.todo[i] \in UserListeners
    /\ Caller.k = k
    /\ Caller.pc = pc

RoundEnded(engine) ==
    [Obs("", "", engine, "") EXCEPT
        !.invoked = Invocations(Len(Top.todo)),
        !.delivered = Deliver(@, Invocations(Len(Top.todo))),
        !.round = [Top EXCEPT !.todo = << >>,
                              !.inv = @ \o Invocations(Len(Top.todo))]]

Internal == UNCHANGED <<config, listeners, handle, reentries>> /\ NoDispatch

\* initialize without its setState({ locale })
InitializeSkipsLocale ==
    /\ Returning("initialize", "setLocale")
    /\ setState(<< >>, [Caller EXCEPT !.pc = "load"], Rest)
    /\ obs' = RoundEnded("none")
    /\ UNCHANGED <<microtasks, promises>>
    /\ Internal

\* initialize: this.setState({ locale })
InitializeSetLocale ==
    /\ Returning("initialize", "setLocale")
    /\ setState([locale |-> Caller.arg], [Caller EXCEPT !.pc = "load"], Rest)
    /\ obs' = RoundEnded("none")
    /\ UNCHANGED <<microtasks, promises>>
    /\ Internal

\* setLocale, initialize: await this.loadTranslations(locale), the call
AwaitLoadTranslations ==
    /\ \/ Returning("setLocale", "load")
       \/ Returning("initialize", "load")
    /\ loadTranslations(Caller.arg, Caller.id,
                        Rest \o <<[Caller EXCEPT !.pc = "await"]>>)
    /\ obs' = RoundEnded("none")
    /\ UNCHANGED <<microtasks, promises>>
    /\ Internal

\* loadTranslations that adds the new entries to the old ones
LoadSucceedsMerging ==
    /\ Returning("loadTranslations", "engine")
    /\ setState([translations |->
                     BuildTranslations(EngineKeys(Caller.arg), Caller.arg,
                                       state.translations),
                 isLoading |-> FALSE, isInitialized |-> TRUE],
                [Caller EXCEPT !.pc = "return", !.out = "ok"], Rest)
    /\ obs' = RoundEnded("returned")
    /\ promises' = [promises EXCEPT ![Caller.id].eng = "ok"]
    /\ UNCHANGED microtasks
    /\ Internal

\* loadTranslations: every Engine call returns, and the try block ends with
\* setState({ translations, isLoading: false, isInitialized: true })
LoadSucceeds ==
    /\ Returning("loadTranslations", "engine")
    /\ setState([translations |->
                     BuildTranslations(EngineKeys(Caller.arg), Caller.arg, << >>),
                 isLoading |-> FALSE, isInitialized |-> TRUE],
                [Caller EXCEPT !.pc = "return", !.out = "ok"], Rest)
    /\ obs' = RoundEnded("returned")
    /\ promises' = [promises EXCEPT ![Caller.id].eng = "ok"]
    /\ UNCHANGED microtasks
    /\ Internal

\* loadTranslations whose catch block leaves isLoading set
LoadFailsKeepsLoading(e) ==
    /\ Returning("loadTranslations", "engine")
    /\ setState([error |-> e],
                [Caller EXCEPT !.pc = "return", !.out = e], Rest)
    /\ obs' = RoundEnded("raised")
    /\ promises' = [promises EXCEPT ![Caller.id].eng = e]
    /\ UNCHANGED microtasks
    /\ Internal

\* loadTranslations whose catch block drops the translations it held
LoadFailsDropsTranslations(e) ==
    /\ Returning("loadTranslations", "engine")
    /\ setState([translations |-> << >>, isLoading |-> FALSE, error |-> e],
                [Caller EXCEPT !.pc = "return", !.out = e], Rest)
    /\ obs' = RoundEnded("raised")
    /\ promises' = [promises EXCEPT ![Caller.id].eng = e]
    /\ UNCHANGED microtasks
    /\ Internal

\* loadTranslations: reloadTranslations, getKeys or a translate call of the
\* Engine raises e, and the catch block runs
\* setState({ isLoading: false, error })
LoadFails(e) ==
    /\ Returning("loadTranslations", "engine")
    /\ setState([isLoading |-> FALSE, error |-> e],
                [Caller EXCEPT !.pc = "return", !.out = e], Rest)
    /\ obs' = RoundEnded("raised")
    /\ promises' = [promises EXCEPT ![Caller.id].eng = e]
    /\ UNCHANGED microtasks
    /\ Internal

\* loadTranslations returns, or rethrows.  Called by the application, its
\* promise settles; called by setLocale, initialize or reloadTranslations,
\* the caller parks at its await and returns its own promise
LoadReturn ==
    /\ Returning("loadTranslations", "return")
    /\ IF Rest # << >> /\ Rest[Len(Rest)].pc = "await"
       THEN /\ microtasks' = Append(microtasks,
                    [Rest[Len(Rest)] EXCEPT !.out = Caller.out])
            /\ stack' = SubSeq(Rest, 1, Len(Rest) - 1)
            /\ UNCHANGED promises
       ELSE /\ promises' = Settle(promises, Caller.id, Caller.out)
            /\ stack' = Rest
            /\ UNCHANGED microtasks
    /\ obs' = [RoundEnded("none") EXCEPT
                 !.settled = IF Rest # << >> /\ Rest[Len(Rest)].pc = "await"
                             THEN 0 ELSE Caller.id,
                 !.loaded = IF Caller.out = "ok" THEN Caller.arg ELSE ""]
    /\ UNCHANGED state
    /\ Internal

\* the continuation of the oldest await runs: the rest of the try block of
\* setLocale and initialize, or their catch block; reloadTranslations ends
RunMicrotask ==
    /\ Idle
    /\ microtasks # << >>
    /\ Head(microtasks).k \in {"setLocale", "initialize", "reloadTranslations"}
    /\ LET m == Head(microtasks) IN
       /\ IF m.k = "reloadTranslations"
          THEN /\ promises' = Settle(promises, m.id, m.out)
               /\ microtasks' =
                    Tail(microtasks) \o Reactions(promises, m.id, m.out)
               /\ UNCHANGED <<state, stack>>
          ELSE /\ IF m.out = "ok"
                  THEN setState([isLoading |-> FALSE, isInitialized |-> TRUE],
                                [m EXCEPT !.pc = "settle"], << >>)
                  ELSE setState([isLoading |-> FALSE, error |-> m.out],
                                [m EXCEPT !.pc = "settle"], << >>)
               /\ microtasks' = Tail(microtasks)
               /\ UNCHANGED promises
    /\ obs' = [Step EXCEPT
                 !.settled = IF Head(microtasks).k = "reloadTranslations"
                             THEN Head(microtasks).id ELSE 0]
    /\ Internal

\* setLocale, initialize: the method ends, or rethrows
MethodSettles ==
    /\ \/ Returning("setLocale", "settle")
       \/ Returning("initialize", "settle")
    /\ promises' = Settle(promises, Caller.id, Caller.out)
    /\ microtasks' = microtasks \o Reactions(promises, Caller.id, Caller.out)
    /\ stack' = Rest
    /\ obs' = [RoundEnded("none") EXCEPT !.settled = Caller.id]
    /\ UNCHANGED state
    /\ Internal

----------------------------------------------------------------------------
(* ReduxAdapter.  Its constructor subscribes a listener to the manager    *)
(* ("mirror") that dispatches five actions; store.dispatch(action) runs   *)
(* the reducer and then calls the listeners the store held when the       *)
(* dispatch began.                                                        *)

\* store.dispatch(action) by the activation `frame` on top of `stk`; the
\* round notes (out) whether the reducer changed the state
dispatch(action, frame, stk) ==
    LET s1 == translationReducer(store, action) IN
    /\ store' = s1
    /\ stack' = stk \o <<frame,
                         [Round("store",
                                [s1 EXCEPT !.error = deserializeError(@)],
                                storeListeners)
                            EXCEPT !.out = IF s1 = store THEN "unchanged"
                                           ELSE "changed"]>>

\* ReduxAdapter.subscribe(listener): store.subscribe(() => { ...
\* listener(currentState) }); the state objects compared are never the same
adapterSubscribe(l) ==
    /\ storeListeners' = Append(storeListeners, l)
    /\ handle' = [handle EXCEPT ![l] = "held"]

\* the function ReduxAdapter.subscribe returned, the store's unsubscribe: a
\* dispatch that is running still calls the listener
adapterUnsubscribe(l, stk) ==
    /\ storeListeners' = Remove(storeListeners, l)
    /\ handle' = [handle EXCEPT ![l] = "called"]
    /\ stack' = [i \in 1..Len(stk) |->
                    IF stk[i].k = "notify" /\ stk[i].reg = "store"
                    THEN [stk[i] EXCEPT !.gone = @ \cup {l}]
                    ELSE stk[i]]

\* ReduxAdapter.destroy(): this.unsubscribe(), the function the manager's
\* subscribe returned to the constructor, and this.core.destroy().  The
\* listeners that ReduxAdapter.subscribe registered with the store stay
adapterDestroy ==
    /\ destroy
    /\ UNCHANGED storeListeners

CallAdapterDestroy ==
    /\ Idle
    /\ "mirror" \in Range(listeners)
    /\ adapterDestroy
    /\ obs' = Obs("adapter.destroy", "", "returned", "")
    /\ UNCHANGED <<config, reentries>>
    /\ NoDispatch

CallAdapterSubscribe(l) ==
    /\ Idle
    /\ l \notin Range(storeListeners)
    /\ handle[l] # "held"
    /\ adapterSubscribe(l)
    /\ obs' = Obs("adapter.subscribe", l, "none", "")
    /\ UNCHANGED <<now, coreAt,
      contextState, contextListeners>>
    /\ UNCHANGED <<config, state, listeners, store, stack, microtasks,
                   promises, reentries>>

CallAdapterUnsubscribe(l) ==
    /\ Idle
    /\ handle[l] = "held"
    /\ adapterUnsubscribe(l, << >>)
    /\ obs' = Obs("adapter.unsubscribe", l, "none", "")
    /\ UNCHANGED <<now, coreAt,
      contextState, contextListeners>>
    /\ UNCHANGED <<config, state, listeners, store, microtasks, promises,
                   reentries>>

\* getActions().clearCache(): this.core.clearCache(); dispatch(clearCache())
\* when the Engine's clearCache raises, the manager's clearCache throws
\* before the dispatch
CallAdapterClearCache(raises) ==
    /\ Idle
    /\ clearCache
    /\ IF raises
       THEN UNCHANGED <<store, stack>>
       ELSE dispatch(Action("clearCache", Null),
                     Frame("adapter.clearCache", "return", 0, "", ""), << >>)
    /\ obs' = Obs("adapter.clearCache", "",
                  IF raises THEN "raised" ELSE "returned",
                  IF raises THEN "throw" ELSE "")
    /\ UNCHANGED <<now, coreAt,
      contextState, contextListeners>>
    /\ UNCHANGED <<config, storeListeners, microtasks, promises, handle,
                   reentries>>

\* every listener left returns at once and dispatch returns to k
StoreReturning(k) ==
    /\ Len(stack) > 1
    /\ Notifying
    /\ Top.reg = "store"
    /\ Caller.k = k

AdapterClearCacheReturns ==
    /\ StoreReturning("adapter.clearCache")
    /\ stack' = Rest
    /\ obs' = RoundEnded("none")
    /\ UNCHANGED <<now, coreAt,
      contextState, contextListeners>>
    /\ UNCHANGED <<config, state, listeners, store, storeListeners,
                   microtasks, promises, handle, reentries>>

\* the manager's round reaches the adapter's listener, which makes its
\* first dispatch.  Its activation keeps newState (produced), the number of
\* its next dispatch (id) and, for reference, the manager's state before
\* the update (arg) and the store's state when it was invoked (out)
MirrorInvoked ==
    /\ Notifying
    /\ Top.reg = "core"
    /\ Top.todo # << >>
    /\ Top.todo[1] = "mirror"
    /\ dispatch(MirrorActions(getState)[1],
                [Frame("mirror", "dispatch", 2, Top.arg, store)
                    EXCEPT !.produced = getState],
                Below \o <<Taken(1)>>)
    /\ obs' = Notified("", "", 1)
    /\ UNCHANGED <<now, coreAt,
      contextState, contextListeners>>
    /\ UNCHANGED <<config, state, listeners, storeListeners, microtasks,
                   promises, handle, reentries>>

\* the adapter's listener makes its next dispatch
MirrorDispatches ==
    /\ StoreReturning("mirror")
    /\ Caller.id <= Len(MirrorActions(Caller.produced))
    /\ dispatch(MirrorActions(Caller.produced)[Caller.id],
                [Caller EXCEPT !.id = @ + 1], Rest)
    /\ obs' = RoundEnded("none")
    /\ UNCHANGED <<now, coreAt,
      contextState, contextListeners>>
    /\ UNCHANGED <<config, state, listeners, storeListeners, microtasks,
                   promises, handle, reentries>>

\* the adapter's listener returns to the manager's round
MirrorReturns ==
    /\ StoreReturning("mirror")
    /\ Caller.id > Len(MirrorActions(Caller.produced))
    /\ stack' = Rest
    /\ obs' = RoundEnded("none")
    /\ UNCHANGED <<now, coreAt,
      contextState, contextListeners>>
    /\ UNCHANGED <<config, state, listeners, store, storeListeners,
                   microtasks, promises, handle, reentries>>

\* while the store notifies, the n-th listener calls an unsubscribe
\* function, its own or another's
StoreListenerUnsubscribes(n, l) ==
    /\ Acting(n)
    /\ Top.reg = "store"
    /\ handle[l] = "held"
    /\ adapterUnsubscribe(l, Below \o <<Taken(n)>>)
    /\ obs' = Notified("adapter.unsubscribe", l, n)
    /\ UNCHANGED <<now, coreAt,
      contextState, contextListeners>>
    /\ UNCHANGED <<config, state, listeners, store, microtasks, promises>>

\* while the store notifies, the n-th listener calls the manager's
\* setLocale(l)
StoreListenerSetsLocale(n, l) ==
    /\ Acting(n)
    /\ Top.reg = "store"
    /\ Len(promises) < MaxCalls
    /\ setLocale(l, Below \o <<Taken(n)>>)
    /\ obs' = Notified("setLocale", l, n)
    /\ UNCHANGED <<config, listeners, handle>>
    /\ NoDispatch

----------------------------------------------------------------------------
(* The Redux store as the application uses it: plain dispatches, the       *)
(* actions the adapter's getActions() returns, the useReduxTranslation     *)
(* hook, and the clock                                                     *)

\* createTranslationStore(core): (store as any).core = core
createTranslationStore == {"store.core"}

\* the store of the adapter's tests: store.core and store.getState.core
WiredStore == {"store.core", "getState.core"}

\* the effect of ReduxTranslationProvider has run
Mounted == \E i \in 1..Len(promises) : promises[i].op = "initialize"

\* reduxAdapter.initialize has ended and the provider renders its children
Rendered ==
    /\ \E i \in 1..Len(promises) :
            promises[i].op = "initialize" /\ promises[i].st # "pending"
    /\ \A i \in 1..Len(microtasks) : microtasks[i].k # "adapter.initialize"

\* the application can dispatch: it holds the store it passed in, or it is
\* the children of the provider, which get the provider's own store from
\* the context once they are rendered
CanDispatch == Idle /\ (coreAt = createTranslationStore => Rendered)

\* the activation that waits for store.dispatch to return
Dispatcher(call) == Frame(call, "return", 0, "", "")

\* the step changes the store, the call stack and obs only
StoreOnly ==
    UNCHANGED <<config, state, listeners, storeListeners, microtasks,
                promises, handle, reentries, now, coreAt,
      contextState, contextListeners>>

\* time passes between two tasks
Tick ==
    /\ Idle
    /\ now < MaxClock
    /\ now' = now + 1
    /\ obs' = Step
    /\ UNCHANGED <<config, state, listeners, store, storeListeners, stack,
                   microtasks, promises, handle, reentries, coreAt,
      contextState, contextListeners>>

\* what setError is dispatched with: an Error, a serialized record, null or
\* undefined
ErrorPayloads == {"E1", serializeError("E2"), Null, Undefined}

\* store.dispatch(setError(payload))
DispatchSetError(payload) ==
    /\ CanDispatch
    /\ dispatch(Action("setError", payload), Dispatcher("setError"), << >>)
    /\ obs' = Obs("setError", payload, "none", "")
    /\ StoreOnly

\* the identifiers addPendingAction and removePendingAction are dispatched
\* with: the two the extraReducers use, and one of the application
PendingActionIds == {"loadTranslations", "reloadTranslations", "test-action"}

\* store.dispatch(addPendingAction(id)); the result notes whether the
\* identifier was in pendingActions
DispatchAddPendingAction(id) ==
    /\ CanDispatch
    /\ dispatch(Action("addPendingAction", id),
                Dispatcher("addPendingAction"), << >>)
    /\ obs' = Obs("addPendingAction", id, "none",
                  IF id \in Range(store.pendingActions) THEN "present"
                  ELSE "absent")
    /\ StoreOnly

\* store.dispatch(removePendingAction(id))
DispatchRemovePendingAction(id) ==
    /\ CanDispatch
    /\ dispatch(Action("removePendingAction", id),
                Dispatcher("removePendingAction"), << >>)
    /\ obs' = Obs("removePendingAction", id, "none",
                  IF id \in Range(store.pendingActions) THEN "present"
                  ELSE "absent")
    /\ StoreOnly

\* useReduxTranslation().setLocale(locale): dispatch(setLocale(locale))
useReduxTranslationSetLocale(locale) ==
    /\ Idle
    /\ dispatch(Action("setLocale", locale),
                Dispatcher("useReduxTranslation.setLocale"), << >>)
    /\ obs' = Obs("useReduxTranslation.setLocale", locale, "none", "")
    /\ StoreOnly

\* getActions().translate(key): this.core.translate(key);
\* dispatch(updateLastUpdated())
CallAdapterTranslate(key, raises) ==
    /\ Idle
    /\ dispatch(Action("updateLastUpdated", Null),
                Dispatcher("adapter.translate"), << >>)
    /\ obs' = Obs("adapter.translate", key,
                  IF raises THEN "raised" ELSE "returned",
                  translate(key, raises))
    /\ StoreOnly

\* getActions().translatePlural(key, count)
CallAdapterTranslatePlural(key, count, raises) ==
    /\ Idle
    /\ dispatch(Action("updateLastUpdated", Null),
                Dispatcher("adapter.translatePlural"), << >>)
    /\ obs' = Obs("adapter.translatePlural", <<key, count>>,
                  IF raises THEN "raised" ELSE "returned",
                  translatePlural(key, count, raises))
    /\ StoreOnly

\* the manager's methods that return what the Engine returns and have no
\* try block: formatDate, formatNumber (of the current locale),
\* getTextDirection, isRTLLocale
Formatters == {"formatDate", "formatNumber"}
ReadOnlyQueries == {"getTextDirection", "isRTLLocale"}

\* getActions().formatDate(date), getActions().formatNumber(number):
\* the manager's method, then dispatch(updateLastUpdated()); when the
\* Engine raises, the exception leaves the action before the dispatch
CallAdapterFormat(fn, raises) ==
    /\ Idle
    /\ fn \in Formatters
    /\ IF raises
       THEN UNCHANGED <<store, stack>>
       ELSE dispatch(Action("updateLastUpdated", Null),
                     Dispatcher("adapter." \o fn), << >>)
    /\ obs' = Obs("adapter." \o fn, "",
                  IF raises THEN "raised" ELSE "returned",
                  IF raises THEN "throw" ELSE <<fn, state.locale>>)
    /\ StoreOnly

\* a read-only query written like the other actions: the manager's method,
\* then dispatch(updateLastUpdated())
CallAdapterReadOnlyDispatches(fn, raises) ==
    /\ Idle
    /\ fn \in ReadOnlyQueries
    /\ IF raises
       THEN UNCHANGED <<store, stack>>
       ELSE dispatch(Action("updateLastUpdated", Null),
                     Dispatcher("adapter." \o fn), << >>)
    /\ obs' = Obs("adapter." \o fn, "",
                  IF raises THEN "raised" ELSE "returned",
                  IF raises THEN "throw" ELSE <<fn>>)
    /\ StoreOnly

\* getActions().getTextDirection(text), getActions().isRTLLocale(locale):
\* return this.core.getTextDirection(text), no dispatch
CallAdapterReadOnly(fn, raises) ==
    /\ Idle
    /\ fn \in ReadOnlyQueries
    /\ obs' = Obs("adapter." \o fn, "",
                  IF raises THEN "raised" ELSE "returned",
                  IF raises THEN "throw" ELSE <<fn>>)
    /\ UNCHANGED <<store, stack>>
    /\ StoreOnly

\* store.dispatch returns to the application
DispatchReturns ==
    /\ StoreReturning(Caller.k)
    /\ Caller.pc = "return"
    /\ Caller.k # "adapter.clearCache"
    /\ stack' = Rest
    /\ obs' = RoundEnded("none")
    /\ UNCHANGED store
    /\ StoreOnly

----------------------------------------------------------------------------
(* The thunks loadTranslationsAsync and reloadTranslationsAsync, made     *)
(* with createAsyncThunk: dispatching one dispatches its pending action    *)
(* and calls the payload creator at once; the fulfilled or the rejected    *)
(* action is dispatched once the payload creator's promise has settled.    *)

Thunks == {"loadTranslationsAsync", "reloadTranslationsAsync"}

\* the identifier the extraReducers keep in pendingActions for the thunk
PendingId(op) ==
    IF op = "loadTranslationsAsync" THEN "loadTranslations"
    ELSE "reloadTranslations"

\* the places a thunk looks for the manager:
\* (getState as any).core || (state as any).core || state.translation.core
Lookup == {"getState.core", "state.core", "state.translation.core"}

CoreFound == coreAt \cap Lookup # {}

\* dispatch(setPerformanceMetrics({ translationTime })) of the thunk frame
Metrics(frame) ==
    Action("setPerformanceMetrics",
           [translationTime |-> now - frame.arg.startTime])

\* store.dispatch(loadTranslationsAsync(locale)),
\* store.dispatch(reloadTranslationsAsync()): the pending action.  A thunk
\* that will call reloadTranslations needs room for that call
DispatchThunk(op, locale) ==
    /\ CanCall
    /\ CanDispatch
    /\ op \in Thunks
    /\ (op = "reloadTranslationsAsync") = (locale = Undefined)
    /\ op = "reloadTranslationsAsync" /\ CoreFound
            => Len(promises) + 1 < MaxCalls
    /\ promises' = NewPromise(promises, op, locale, "pending")
    /\ dispatch(Action("pending", [id |-> PendingId(op)]),
                Frame(op, "payloadCreator", Len(promises) + 1,
                      [locale |-> locale, startTime |-> now], ""),
                << >>)
    /\ obs' = Obs(op, locale, "none", "")
    /\ UNCHANGED <<config, state, listeners, storeListeners, microtasks,
                   handle, reentries, now, coreAt,
      contextState, contextListeners>>

\* the payload creator starts
ThunkStarts ==
    /\ StoreReturning(Caller.k)
    /\ Caller.k \in Thunks
    /\ Caller.pc = "payloadCreator"

\* a payload creator that returns when it finds no manager
ThunkFindsNoCoreReturns ==
    /\ ThunkStarts
    /\ ~CoreFound
    /\ dispatch(Metrics(Caller),
                [Caller EXCEPT !.pc = "returned", !.out = "ok"], Rest)
    /\ obs' = RoundEnded("none")
    /\ StoreOnly

\* no manager is found: throw new Error('Translation core not
\* initialized'), and the catch block dispatches the metrics
ThunkFindsNoCore ==
    /\ ThunkStarts
    /\ ~CoreFound
    /\ dispatch(Metrics(Caller),
                [Caller EXCEPT !.pc = "thrown", !.out = NotInitialized], Rest)
    /\ obs' = RoundEnded("none")
    /\ StoreOnly

\* await core.loadTranslations(locale), the call
ThunkLoadTranslations ==
    /\ ThunkStarts
    /\ CoreFound
    /\ Caller.k = "loadTranslationsAsync"
    /\ loadTranslations(Caller.arg.locale, Caller.id,
                        Rest \o <<[Caller EXCEPT !.pc = "await"]>>)
    /\ obs' = [RoundEnded("none") EXCEPT !.call = "loadTranslations",
                                         !.arg = Caller.arg.locale]
    /\ UNCHANGED <<microtasks, promises>>
    /\ Internal

\* await core.reloadTranslations(), the call
ThunkReloadTranslations ==
    /\ ThunkStarts
    /\ CoreFound
    /\ Caller.k = "reloadTranslationsAsync"
    /\ reloadTranslations(
            Rest \o <<[Caller EXCEPT !.pc = "awaitPromise",
                                     !.out = Len(promises) + 1]>>)
    /\ obs' = [RoundEnded("none") EXCEPT !.call = "reloadTranslations"]
    /\ Internal

\* await p, p the promise an async method of the manager returned: the
\* caller's continuation waits for p to settle
AwaitPromise ==
    /\ stack # << >>
    /\ Top.pc = "awaitPromise"
    /\ IF promises[Top.out].st = "pending"
       THEN /\ promises' = [promises EXCEPT ![Top.out].then = Append(@, Top)]
            /\ UNCHANGED microtasks
       ELSE /\ microtasks' =
                Append(microtasks,
                       [Top EXCEPT !.out = IF promises[Top.out].st = "resolved"
                                           THEN "ok"
                                           ELSE promises[Top.out].err])
            /\ UNCHANGED promises
    /\ stack' = Below
    /\ obs' = Step
    /\ UNCHANGED state
    /\ Internal

\* the payload creator resumes after its await: it dispatches the metrics
\* and returns, or its catch block dispatches them and rethrows
ThunkResumes ==
    /\ Idle
    /\ microtasks # << >>
    /\ Head(microtasks).k \in Thunks
    /\ Head(microtasks).pc \in {"await", "awaitPromise"}
    /\ microtasks' = Tail(microtasks)
    /\ dispatch(Metrics(Head(microtasks)),
                [Head(microtasks) EXCEPT
                    !.pc = IF Head(microtasks).out = "ok" THEN "returned"
                           ELSE "thrown"],
                << >>)
    /\ obs' = Step
    /\ UNCHANGED <<config, state, listeners, storeListeners, promises,
                   handle, reentries, now, coreAt,
      contextState, contextListeners>>

\* the payload creator's promise settles; the thunk awaits it
ThunkPayloadSettles ==
    /\ StoreReturning(Caller.k)
    /\ Caller.k \in Thunks
    /\ Caller.pc \in {"returned", "thrown"}
    /\ microtasks' = Append(microtasks, [Caller EXCEPT !.pc = "final"])
    /\ stack' = Rest
    /\ obs' = RoundEnded("none")
    /\ UNCHANGED <<config, state, listeners, store, storeListeners,
                   promises, handle, reentries, now, coreAt,
      contextState, contextListeners>>

\* the thunk dispatches fulfilled(result) or rejected(error)
ThunkFinalAction ==
    /\ Idle
    /\ microtasks # << >>
    /\ Head(microtasks).k \in Thunks
    /\ Head(microtasks).pc = "final"
    /\ LET m == Head(microtasks) IN
       /\ microtasks' = Tail(microtasks)
       /\ promises' = Settle(promises, m.id, m.out)
       /\ dispatch(IF m.out = "ok"
                   THEN Action("fulfilled", [id |-> PendingId(m.k)])
                   ELSE Action("rejected", [id |-> PendingId(m.k),
                                            error |-> m.out]),
                   [m EXCEPT !.pc = "return"], << >>)
       /\ obs' = [Step EXCEPT !.settled = m.id]
    /\ UNCHANGED <<config, state, listeners, storeListeners, handle,
                   reentries, now, coreAt,
      contextState, contextListeners>>

----------------------------------------------------------------------------
(* getActions().setLocale of the ReduxAdapter:                            *)
(* await this.core.setLocale(locale); dispatch(setLocale(locale))         *)

\* the action is called: it calls the manager's setLocale and will await
\* the promise returned (id, out).  Its activation keeps the store's state
\* as the call found it (produced)
CallAdapterSetLocale(l) ==
    /\ CanCall
    /\ setLocale(l, <<[Frame("adapter.setLocale", "awaitPromise",
                             Len(promises) + 1, l, Len(promises) + 1)
                          EXCEPT !.produced = store]>>)
    /\ obs' = Obs("adapter.setLocale", l, "none", "")
    /\ Quiet

\* the action that dispatches after its await however the manager's call
\* ended
AdapterSetLocaleResumesAlwaysDispatches ==
    /\ Idle
    /\ microtasks # << >>
    /\ Head(microtasks).k = "adapter.setLocale"
    /\ microtasks' = Tail(microtasks)
    /\ dispatch(Action("setLocale", Head(microtasks).arg),
                [Head(microtasks) EXCEPT !.pc = "resolve"], << >>)
    /\ obs' = Step
    /\ UNCHANGED <<config, state, listeners, storeListeners, promises,
                   handle, reentries, now, coreAt, contextState,
                   contextListeners>>

\* the action resumes after its await: dispatch(setLocale(locale)), or the
\* manager's error is thrown on and the action's promise rejects with it
AdapterSetLocaleResumes ==
    /\ Idle
    /\ microtasks # << >>
    /\ Head(microtasks).k = "adapter.setLocale"
    /\ microtasks' = Tail(microtasks)
    /\ IF Head(microtasks).out = "ok"
       THEN /\ dispatch(Action("setLocale", Head(microtasks).arg),
                        [Head(microtasks) EXCEPT !.pc = "resolve"], << >>)
            /\ obs' = Step
       ELSE /\ UNCHANGED <<store, stack>>
            /\ obs' = [Obs("adapter.setLocale", Head(microtasks).arg,
                           "none", Head(microtasks).out)
                          EXCEPT !.round = Head(microtasks)]
    /\ UNCHANGED <<config, state, listeners, storeListeners, promises,
                   handle, reentries, now, coreAt, contextState,
                   contextListeners>>

\* the dispatch returns, and the action's promise resolves
AdapterSetLocaleResolves ==
    /\ StoreReturning("adapter.setLocale")
    /\ Caller.pc = "resolve"
    /\ stack' = Rest
    /\ obs' = [RoundEnded("none") EXCEPT
                 !.call = "adapter.setLocale", !.arg = Caller.arg,
                 !.result = "ok", !.round = Caller]
    /\ UNCHANGED store
    /\ StoreOnly

----------------------------------------------------------------------------
(* ReduxTranslationProvider: its effect creates the manager, the store    *)
(* (createTranslationStore, unless a store is passed in) and the adapter, *)
(* and calls reduxAdapter.initialize(config); the children are rendered   *)
(* once that call has ended, however it ended.                             *)

\* the effect of ReduxTranslationProvider given initialLocale, up to the
\* first dispatch of reduxAdapter.initialize: dispatch(setLoading(true))
ReduxTranslationProvider(initialLocale) ==
    /\ CanCall
    /\ ~Mounted
    /\ dispatch(Action("setLoading", TRUE),
                Frame("adapter.initialize", "setError", 0, initialLocale, ""),
                << >>)
    /\ obs' = Obs("ReduxTranslationProvider", initialLocale, "none", "")
    /\ StoreOnly

\* initialize that does not clear the error
AdapterInitializeKeepsError ==
    /\ StoreReturning("adapter.initialize")
    /\ Caller.pc = "setError"
    /\ dispatch(Action("setLoading", TRUE), [Caller EXCEPT !.pc = "core"],
                Rest)
    /\ obs' = RoundEnded("none")
    /\ StoreOnly

\* initialize: this.store.dispatch(setError(null))
AdapterInitializeSetError ==
    /\ StoreReturning("adapter.initialize")
    /\ Caller.pc = "setError"
    /\ dispatch(Action("setError", Null), [Caller EXCEPT !.pc = "core"], Rest)
    /\ obs' = RoundEnded("none")
    /\ StoreOnly

\* initialize: await this.core.initialize(), the call
AdapterInitializeCore ==
    /\ StoreReturning("adapter.initialize")
    /\ Caller.pc = "core"
    /\ initialize(Undefined,
                  Rest \o <<[Caller EXCEPT !.pc = "awaitPromise",
                                           !.out = Len(promises) + 1]>>)
    /\ obs' = RoundEnded("none")
    /\ Internal

\* initialize resumes after its await: dispatch(setInitialized(true)), or
\* in its catch block dispatch(setError(error))
AdapterInitializeResumes ==
    /\ Idle
    /\ microtasks # << >>
    /\ Head(microtasks).k = "adapter.initialize"
    /\ microtasks' = Tail(microtasks)
    /\ dispatch(IF Head(microtasks).out = "ok"
                THEN Action("setInitialized", TRUE)
                ELSE Action("setError", Head(microtasks).out),
                [Head(microtasks) EXCEPT !.pc = "setLoading"], << >>)
    /\ obs' = Step
    /\ UNCHANGED <<config, state, listeners, storeListeners, promises,
                   handle, reentries, now, coreAt,
      contextState, contextListeners>>

\* initialize: this.store.dispatch(setLoading(false))
AdapterInitializeSetLoading ==
    /\ StoreReturning("adapter.initialize")
    /\ Caller.pc = "setLoading"
    /\ dispatch(Action("setLoading", FALSE),
                [Caller EXCEPT !.pc = "rendered"], Rest)
    /\ obs' = RoundEnded("none")
    /\ StoreOnly

\* initialize returns or rethrows; the provider sets isInitialized in both
\* cases and renders its children
ProviderRendersChildren ==
    /\ StoreReturning("adapter.initialize")
    /\ Caller.pc = "rendered"
    /\ stack' = Rest
    /\ obs' = [RoundEnded("none") EXCEPT
                 !.call = "ReduxTranslationProvider.children",
                 !.arg = Caller.arg,
                 !.result = Caller.out]
    /\ UNCHANGED store
    /\ StoreOnly

----------------------------------------------------------------------------
(* SSRTranslationUtils.serializeContext and deserializeContext             *)
(* (src/src/ssr/index.ts), with JSON.stringify and JSON.parse computed     *)
(* character by character.  A text is a sequence of one-character          *)
(* strings.  A JavaScript value is a record with its type t and its        *)
(* content v: the characters of a string, the elements of an array, the    *)
(* members [k, v] of an object in insertion order, the digits of a number, *)
(* the name of a boolean.  The JSON grammar is the full one but for        *)
(* fractions, exponents and signs of numbers and the escapes of characters *)
(* that no text of the model holds (\b \f \r \t \uXXXX).                    *)

Quote == "\""
Backslash == "\\"
Newline == "\n"
Whitespace == {" "}
Digits == {"0", "1", "2", "3", "4", "5", "6", "7", "8", "9"}

Str(cs) == [t |-> "string", v |-> cs]
Arr(es) == [t |-> "array", v |-> es]
Obj(ms) == [t |-> "object", v |-> ms]
Num(ds) == [t |-> "number", v |-> ds]
Bool(b) == [t |-> "boolean", v |-> <<b>>]
JSNull == [t |-> "null", v |-> << >>]
JSUndefined == [t |-> "undefined", v |-> << >>]
SyntaxError == [t |-> "SyntaxError", v |-> << >>]

Member(k, v) == [k |-> k, v |-> v]

\* o[k] of JavaScript
Get(o, k) ==
    IF o.t = "object" /\ \E i \in 1..Len(o.v) : o.v[i].k = k
    THEN o.v[CHOOSE i \in 1..Len(o.v) : o.v[i].k = k].v
    ELSE JSUndefined

\* the texts of the field names of an SSRContext
locale == <<"l", "o", "c", "a", "l", "e">>
translations == <<"t", "r", "a", "n", "s", "l", "a", "t", "i", "o", "n", "s">>
preloadedLocales ==
    <<"p", "r", "e", "l", "o", "a", "d", "e", "d",
      "L", "o", "c", "a", "l", "e", "s">>

\* { locale, translations, preloadedLocales }: l a string, ts the members
\* of the translations map, ps a list of strings
SSRContext(l, ts, ps) ==
    Obj(<<Member(locale, Str(l)),
          Member(translations, Obj(ts)),
          Member(preloadedLocales, Arr([i \in 1..Len(ps) |-> Str(ps[i])]))>>)

\* a quoted string that copies every character as it is
QuoteVerbatim(cs) == <<Quote>> \o cs \o <<Quote>>

RECURSIVE Escaped(_)
Escaped(cs) ==
    IF cs = << >> THEN << >>
    ELSE (CASE Head(cs) = Quote     -> <<Backslash, Quote>>
            [] Head(cs) = Backslash -> <<Backslash, Backslash>>
            [] Head(cs) = Newline   -> <<Backslash, "n">>
            [] OTHER                -> <<Head(cs)>>) \o Escaped(Tail(cs))

\* QuoteJSONString of JSON.stringify
QuoteJSONString(cs) == <<Quote>> \o Escaped(cs) \o <<Quote>>

RECURSIVE Join(_)
Join(texts) ==
    IF texts = << >> THEN << >>
    ELSE IF Len(texts) = 1 THEN texts[1]
    ELSE texts[1] \o <<",">> \o Join(Tail(texts))

\* JSON.stringify(value) of a value made of strings, arrays, objects,
\* numbers, booleans and null
RECURSIVE JSONstringify(_)
JSONstringify(value) ==
    CASE value.t = "string"  -> QuoteJSONString(value.v)
      [] value.t = "null"    -> <<"n", "u", "l", "l">>
      [] value.t = "number"  -> value.v
      [] value.t = "boolean" ->
            IF value.v[1] = "true" THEN <<"t", "r", "u", "e">>
            ELSE <<"f", "a", "l", "s", "e">>
      [] value.t = "array"   ->
            <<"[">> \o Join([i \in 1..Len(value.v) |->
                                JSONstringify(value.v[i])]) \o <<"]">>
      [] value.t = "object"  ->
            <<"{">> \o Join([i \in 1..Len(value.v) |->
                                QuoteJSONString(value.v[i].k) \o <<":">>
                                    \o JSONstringify(value.v[i].v)])
                    \o <<"}">>

\* what a parsing function returns: failure, or a value and the position
\* after its text
Fail == [ok |-> FALSE, v |-> SyntaxError, i |-> 0]
Parsed(v, i) == [ok |-> TRUE, v |-> v, i |-> i]

RECURSIVE SkipWhitespace(_, _)
SkipWhitespace(s, i) ==
    IF i <= Len(s) /\ s[i] \in Whitespace THEN SkipWhitespace(s, i + 1)
    ELSE i

At(s, i, c) == i <= Len(s) /\ s[i] = c

\* the characters of a string after its opening quote
RECURSIVE ParseChars(_, _, _)
ParseChars(s, i, acc) ==
    IF i > Len(s) THEN Fail
    ELSE IF s[i] = Quote THEN Parsed(Str(acc), i + 1)
    ELSE IF s[i] = Newline THEN Fail
    ELSE IF s[i] = Backslash
         THEN IF i + 1 > Len(s) THEN Fail
              ELSE IF s[i + 1] \in {Quote, Backslash, "/"}
                   THEN ParseChars(s, i + 2, acc \o <<s[i + 1]>>)
              ELSE IF s[i + 1] = "n"
                   THEN ParseChars(s, i + 2, acc \o <<Newline>>)
              ELSE Fail
    ELSE ParseChars(s, i + 1, acc \o <<s[i]>>)

ParseLiteral(s, i, text, v) ==
    IF i + Len(text) - 1 <= Len(s) /\ SubSeq(s, i, i + Len(text) - 1) = text
    THEN Parsed(v, i + Len(text))
    ELSE Fail

RECURSIVE ParseDigits(_, _, _)
ParseDigits(s, i, acc) ==
    IF i <= Len(s) /\ s[i] \in Digits
    THEN ParseDigits(s, i + 1, acc \o <<s[i]>>)
    ELSE Parsed(Num(acc), i)

\* a number: 0, or a digit other than 0 followed by digits
ParseNumber(s, i) ==
    IF s[i] = "0" THEN Parsed(Num(<<"0">>), i + 1)
    ELSE ParseDigits(s, i, << >>)

\* a member parsed again replaces the value of the one before it
Put(ms, k, v) ==
    IF \E n \in 1..Len(ms) : ms[n].k = k
    THEN [n \in 1..Len(ms) |-> IF ms[n].k = k THEN Member(k, v) ELSE ms[n]]
    ELSE ms \o <<Member(k, v)>>

RECURSIVE ParseValue(_, _)
RECURSIVE ParseElements(_, _, _)
RECURSIVE ParseMembers(_, _, _)

\* the elements of an array from position i, the ones before it in acc
ParseElements(s, i, acc) ==
    LET e == ParseValue(s, i)
        j == SkipWhitespace(s, e.i)
    IN  IF ~e.ok THEN Fail
        ELSE IF At(s, j, ",") THEN ParseElements(s, j + 1, acc \o <<e.v>>)
        ELSE IF At(s, j, "]") THEN Parsed(Arr(acc \o <<e.v>>), j + 1)
        ELSE Fail

\* the members of an object from position i, the ones before it in acc
ParseMembers(s, i, acc) ==
    LET j   == SkipWhitespace(s, i)
        key == ParseChars(s, j + 1, << >>)
        c   == SkipWhitespace(s, key.i)
        m   == ParseValue(s, c + 1)
        n   == SkipWhitespace(s, m.i)
    IN  IF ~At(s, j, Quote) THEN Fail
        ELSE IF ~key.ok THEN Fail
        ELSE IF ~At(s, c, ":") THEN Fail
        ELSE IF ~m.ok THEN Fail
        ELSE IF At(s, n, ",")
             THEN ParseMembers(s, n + 1, Put(acc, key.v.v, m.v))
        ELSE IF At(s, n, "}")
             THEN Parsed(Obj(Put(acc, key.v.v, m.v)), n + 1)
        ELSE Fail

ParseValue(s, i) ==
    LET j == SkipWhitespace(s, i) IN
    IF j > Len(s) THEN Fail
    ELSE CASE s[j] = Quote -> ParseChars(s, j + 1, << >>)
           [] s[j] = "{" ->
                IF At(s, SkipWhitespace(s, j + 1), "}")
                THEN Parsed(Obj(<< >>), SkipWhitespace(s, j + 1) + 1)
                ELSE ParseMembers(s, j + 1, << >>)
           [] s[j] = "[" ->
                IF At(s, SkipWhitespace(s, j + 1), "]")
                THEN Parsed(Arr(<< >>), SkipWhitespace(s, j + 1) + 1)
                ELSE ParseElements(s, j + 1, << >>)
           [] s[j] = "n" -> ParseLiteral(s, j, <<"n", "u", "l", "l">>, JSNull)
           [] s[j] = "t" ->
                ParseLiteral(s, j, <<"t", "r", "u", "e">>, Bool("true"))
           [] s[j] = "f" ->
                ParseLiteral(s, j, <<"f", "a", "l", "s", "e">>, Bool("false"))
           [] s[j] \in Digits -> ParseNumber(s, j)
           [] OTHER -> Fail

\* JSON.parse(text): the value, or SyntaxError when it throws
JSONparse(text) ==
    LET r == ParseValue(text, 1) IN
    IF r.ok /\ SkipWhitespace(text, r.i) = Len(text) + 1 THEN r.v
    ELSE SyntaxError

\* JSON.stringify with strings quoted and not escaped
RECURSIVE JSONstringifyVerbatim(_)
JSONstringifyVerbatim(value) ==
    CASE value.t = "string"  -> QuoteVerbatim(value.v)
      [] value.t = "array"   ->
            <<"[">> \o Join([i \in 1..Len(value.v) |->
                                JSONstringifyVerbatim(value.v[i])])
                    \o <<"]">>
      [] value.t = "object"  ->
            <<"{">> \o Join([i \in 1..Len(value.v) |->
                                QuoteVerbatim(value.v[i].k) \o <<":">>
                                    \o JSONstringifyVerbatim(value.v[i].v)])
                    \o <<"}">>
      [] OTHER -> JSONstringify(value)

serializeContextVerbatim(context) == JSONstringifyVerbatim(context)

\* serializeContext(context): return JSON.stringify(context)
serializeContext(context) == JSONstringify(context)

\* { locale: 'en', translations: {}, preloadedLocales: [] }
DefaultContext == SSRContext(<<"e", "n">>, << >>, << >>)

\* deserializeContext(serialized): try { return JSON.parse(serialized) }
\* catch { console.error(...); return the default context }
deserializeContext(serialized) ==
    IF JSONparse(serialized).t = "SyntaxError" THEN DefaultContext
    ELSE JSONparse(serialized)

\* the contexts the application serializes
MaxPreloaded == 2

SSRLocales == {<<"e", "n">>, <<"f", "r">>}

\* a key and a value hold a quote, a backslash, a line break
SSRKeys == <<(<<"k">>), (<<"a", Quote, ":">>)>>
SSRTexts == {<<"H", "i">>, <<Quote, "}", Backslash, Newline, "n">>}

RECURSIVE Lists(_, _)
Lists(S, n) ==
    IF n = 0 THEN {<< >>}
    ELSE Lists(S, n - 1)
            \cup {l \o <<x>> : l \in {m \in Lists(S, n - 1) : Len(m) = n - 1},
                               x \in S}

\* the members of a translations map with the keys of numbers ks, the
\* n-th key having the text f[n]
Members(ks, f) ==
    LET ns == SelectSeq([n \in 1..Len(SSRKeys) |-> n], LAMBDA n : n \in ks)
    IN  [i \in 1..Len(ns) |-> Member(SSRKeys[ns[i]], Str(f[ns[i]]))]

\* the translations maps: each key absent or with one of the texts
TranslationMaps ==
    {Members(ks, f) : ks \in SUBSET (1..Len(SSRKeys)),
                      f \in [1..Len(SSRKeys) -> SSRTexts]}

SSRContexts ==
    {SSRContext(l, ts, ps) :
        l \in SSRLocales, ts \in TranslationMaps,
        ps \in Lists(SSRLocales, MaxPreloaded)}

\* texts that are no serialized context: not JSON, JSON cut short, and JSON
\* values without the fields of a context
OtherTexts ==
    {<<"i", "n", "v", "a", "l", "i", "d", "-", "j", "s", "o", "n">>,
     << >>,
     <<"{", "}">>,
     <<"n", "u", "l", "l">>,
     <<"[", "]">>,
     <<"1", "2">>,
     <<"t", "r", "u", "e">>,
     QuoteJSONString(<<"e", "n">>),
     JSONstringify(Obj(<<Member(locale, Str(<<"f", "r">>))>>)),
     <<" ", "{", " ", "}", " ">>,
     <<"{", "}", "}">>}

SSROnly ==
    UNCHANGED <<config, state, listeners, store, storeListeners, stack,
                microtasks, promises, handle, reentries, now, coreAt,
      contextState, contextListeners>>

\* utils.serializeContext(context)
CallSerializeContext(context) ==
    /\ obs' = Obs("serializeContext", context, "none",
                  serializeContext(context))
    /\ SSROnly

\* utils.deserializeContext(serialized); the catch block covers the whole
\* body, so the call returns
Deserialized(serialized) ==
    Obs("deserializeContext", serialized, "returned",
        deserializeContext(serialized))

\* the text serializeContext returned is deserialized
CallDeserializeSerialized ==
    /\ obs.call = "serializeContext"
    /\ obs' = Deserialized(obs.result)
    /\ SSROnly

\* the text serializeContext returned, cut short, is deserialized
CallDeserializeCut ==
    /\ obs.call = "serializeContext"
    /\ \E n \in 0..(Len(obs.result) - 1) :
            obs' = Deserialized(SubSeq(obs.result, 1, n))
    /\ SSROnly

\* another text is deserialized
CallDeserializeContext(serialized) ==
    /\ obs' = Deserialized(serialized)
    /\ SSROnly

----------------------------------------------------------------------------
(* SSRTranslationUtils.getTranslation(locale) (src/src/ssr/index.ts): it   *)
(* has no await, so it runs to its end when called; the steps below are    *)
(* its Engine calls, one after the other, with the map built so far kept   *)
(* in its activation (todo: the keys yet to translate, out: translations). *)
(* What the Engine's key list holds after a reload is the Engine's matter: *)
(* any list of distinct keys.                                              *)

SSRLoadLocales == {"en", "fr", "es"}
SSRLoadKeys == {"k1", "k2", "k3"}

\* the lists getKeys(locale) may return
KeyLists ==
    {ks \in Lists(SSRLoadKeys, Cardinality(SSRLoadKeys)) :
        \A i, j \in 1..Len(ks) : i < j => ks[i] # ks[j]}

\* the catch block returning the map built before the exception
getTranslationCaughtPartial(built) == built

\* catch (error) { console.error(...); return {} }
getTranslationCaught(built) == << >>

\* the promise getTranslation returns is resolved with value, after
\* `translated` keys were translated
Resolved(value, translated) ==
    [st |-> "resolved", value |-> value, translated |-> translated]

SSRLoadOnly ==
    UNCHANGED <<config, state, listeners, store, storeListeners,
                microtasks, promises, handle, reentries, now, coreAt,
      contextState, contextListeners>>

\* getTranslation(locale): this.translationService.reloadTranslations()
CallGetTranslation(l, raises) ==
    /\ Idle
    /\ IF raises
       THEN /\ stack' = stack
            /\ obs' = Obs("getTranslation", l, "raised",
                          Resolved(getTranslationCaught(<< >>), 0))
       ELSE /\ stack' = <<Frame("getTranslation", "getKeys", 0, l, << >>)>>
            /\ obs' = Obs("", "", "returned", "")
    /\ SSRLoadOnly

\* const keys = this.translationService.getKeys(locale);
\* const translations = {}
GetTranslationGetKeys(keys, raises) ==
    /\ stack # << >>
    /\ Top.k = "getTranslation"
    /\ Top.pc = "getKeys"
    /\ IF raises
       THEN /\ stack' = << >>
            /\ obs' = Obs("getTranslation", Top.arg, "raised",
                          Resolved(getTranslationCaught(<< >>), 0))
       ELSE IF keys = << >>
       THEN /\ stack' = << >>
            /\ obs' = Obs("getTranslation", Top.arg, "returned",
                          Resolved(<< >>, 0))
       ELSE /\ stack' = <<[Top EXCEPT !.pc = "forEach", !.todo = keys]>>
            /\ obs' = Obs("", "", "returned", "")
    /\ SSRLoadOnly

\* keys.forEach(key => { translations[key] =
\* this.translationService.translate(key, locale) }); return translations
GetTranslationTranslate(raises) ==
    /\ stack # << >>
    /\ Top.k = "getTranslation"
    /\ Top.pc = "forEach"
    /\ LET key   == Head(Top.todo)
           built == Top.out \o <<(<<key, <<Top.arg, key>> >>)>>
       IN  IF raises
           THEN /\ stack' = << >>
                /\ obs' = Obs("getTranslation", Top.arg, "raised",
                              Resolved(getTranslationCaught(Top.out),
                                       Len(Top.out)))
           ELSE IF Tail(Top.todo) = << >>
           THEN /\ stack' = << >>
                /\ obs' = Obs("getTranslation", Top.arg, "returned",
                              Resolved(built, Len(built)))
           ELSE /\ stack' = <<[Top EXCEPT !.todo = Tail(@), !.out = built]>>
                /\ obs' = Obs("", "", "returned", "")
    /\ SSRLoadOnly

----------------------------------------------------------------------------
(* TranslatedText (src/src/components/TranslatedText.tsx), rendered with   *)
(* the store of TranslationProvider: the copy of the manager's state that  *)
(* the provider's listener was last called with.  React renders when the   *)
(* listener calls setStore (updates that are not batched) or once the      *)
(* running task has ended (batched updates).  The functions t and          *)
(* translate of useTranslation both are the store's translate(key,         *)
(* params); they return the Engine's text for the manager's current locale *)
(* or the key, or they raise (a binding other than the manager's may).     *)

\* a || b of JavaScript for strings: undefined, null and '' are falsy
Falsy == {Undefined, Null, ""}
OrElse(a, b) == IF a \in Falsy THEN b ELSE a

\* the text the Engine has for the key in the locale, or the key
TextFor(key, l) ==
    IF key \in Range(EngineKeys(l)) THEN l \o ":" \o key ELSE key

\* the props of the component: translationKey, locale, fallback, children
TextLocales == {Undefined, "es"}
Fallbacks == {Undefined, "", "Fallback"}
Children == {Undefined, "", "Children"}

TranslatedTextProps ==
    [translationKey : Keys, locale : TextLocales, fallback : Fallbacks,
     children : Children]

\* the loading branch left out
ReturnsEarlyOnErrorOnly(s) == s.error # Null

\* if (isLoading) return ...; if (error) return ...
ReturnsEarly(s) == s.isLoading \/ s.error # Null

\* the function the component calls: translate when the locale prop is
\* set, t otherwise
Called(p) == IF p.locale \in Falsy THEN "t" ELSE "translate"

\* translate(translationKey, params), t(translationKey, { params }): both
\* the manager's translate, for the manager's current locale
useTranslationTranslate(p) == TextFor(p.translationKey, state.locale)

\* translatedText after the try block
translatedText(p, raises) ==
    IF raises THEN OrElse(p.fallback, p.translationKey)
    ELSE useTranslationTranslate(p)

\* finalText without the fallback
finalTextKeepsKey(p, text) == text

\* translatedText === translationKey && fallback ? fallback : translatedText
finalText(p, text) ==
    IF text = p.translationKey /\ p.fallback \notin Falsy THEN p.fallback
    ELSE text

\* what the component renders inside its host element; called: the
\* function it called; returned: what that call returned
Rendering(rendered, called, returned) ==
    [rendered |-> rendered, called |-> called, returned |-> returned]

\* the component rendering {finalText || children}
TranslatedTextComputedFirst(p, raises) ==
    IF ReturnsEarly(state)
    THEN Rendering(OrElse(p.fallback, p.translationKey), "none", Undefined)
    ELSE Rendering(OrElse(finalText(p, translatedText(p, raises)),
                          p.children),
                   Called(p),
                   IF raises THEN "throw" ELSE useTranslationTranslate(p))

\* the component: what it renders, which function it called, what that
\* call returned
TranslatedText(p, raises) ==
    IF ReturnsEarly(state)
    THEN Rendering(OrElse(p.fallback, p.translationKey), "none", Undefined)
    ELSE Rendering(OrElse(p.children,
                          finalText(p, translatedText(p, raises))),
                   Called(p),
                   IF raises THEN "throw" ELSE useTranslationTranslate(p))

\* whether the render called the translate function, and how it ended
TranslateCall(raises) ==
    IF ReturnsEarly(state) THEN "none"
    ELSE IF raises THEN "raised" ELSE "returned"

\* React renders <TranslatedText {...p} /> between two tasks
RenderTranslatedText(p, raises) ==
    /\ Idle
    /\ raises => ~ReturnsEarly(state)
    /\ obs' = Obs("TranslatedText", p, TranslateCall(raises),
                  TranslatedText(p, raises))
    /\ UNCHANGED <<state, stack, microtasks, promises>>
    /\ Quiet

\* the manager's round reaches the provider's listener: setStore({
\* ...newState, ...actions }), and React renders <TranslatedText {...p} />
\* with that store at once
ProviderRendersText(p, raises) ==
    /\ Notifying
    /\ Top.reg = "core"
    /\ Top.todo # << >>
    /\ Top.todo[1] = "provider"
    /\ raises => ~ReturnsEarly(state)
    /\ stack' = Below \o <<Taken(1)>>
    /\ obs' = [Notified("TranslatedText", p, 1) EXCEPT
                 !.engine = TranslateCall(raises),
                 !.result = TranslatedText(p, raises)]
    /\ UNCHANGED <<state, microtasks, promises>>
    /\ Quiet

----------------------------------------------------------------------------
(* TranslationProvider and the hooks that read its context                 *)
(* (src/src/adapters/context.tsx).  The provider's React state `store` is  *)
(* null until its effect has run: the effect creates the manager and the   *)
(* adapter, calls setStore and starts core.initialize(initialLocale), and  *)
(* React applies the state updates made in an effect when the effect has   *)
(* ended.                                                                   *)

NoProviderError ==
    "useTranslationStore must be used within a TranslationProvider"

Hooks == {"useTranslationStore", "useTranslation", "useLocale"}

\* the synchronous part of the provider's effect is running
EffectRunning ==
    \E i \in 1..Len(stack) :
        stack[i].k = "initialize" /\ stack[i].pc # "settle"

\* the provider's React state `store`: null, or a store object
TranslationProviderStore ==
    IF Mounted /\ ~EffectRunning THEN "store" ELSE Null

\* what a provider renders: the context value, and whether its children
Output(value, children) == [value |-> value, children |-> children]

\* a provider that renders its children whatever its store is
TranslationProviderAlwaysChildren(s) == Output(s, TRUE)

\* if (!store) return <Provider value={null}><div>Loading...</div>
\* </Provider>; return <Provider value={store}>{children}</Provider>
TranslationProvider(s) ==
    IF s = Null THEN Output(Null, FALSE) ELSE Output(s, TRUE)

\* useContext(TranslationContext) of a consumer inside the provider's
\* children, or of one with no provider above it: createContext(null)
useContext(inside) ==
    IF inside THEN TranslationProvider(TranslationProviderStore).value
    ELSE Null

\* useTranslationStore that returns what the context holds
useTranslationStoreUnchecked(value) == value

\* useTranslationStore(): if (!store) throw new Error(...); return store
useTranslationStore(value) ==
    IF value = Null THEN NoProviderError ELSE value

\* useTranslation() and useLocale() call useTranslationStore() first;
\* useLocale then calls store.isRTLLocale and store.getTextDirection,
\* which let an exception of the Engine escape
Hook(hook, inside, raises) ==
    LET store_ == useTranslationStore(useContext(inside)) IN
    IF store_ = NoProviderError THEN NoProviderError
    ELSE IF hook = "useLocale" /\ raises THEN "E1"
    ELSE store_

\* the consumer, its place and what the context held for it
Consumer(hook, inside) ==
    [hook |-> hook, inside |-> inside, value |-> useContext(inside)]

\* React can render the consumer: one inside the provider is rendered
\* when the provider renders its children
CanRender(hook, inside, raises) ==
    /\ inside => TranslationProvider(TranslationProviderStore).children
    /\ raises => hook = "useLocale"

\* the effect of TranslationProvider: new TranslationCore(config),
\* new ContextAdapter(core), setStore(initialStore), adapter.subscribe,
\* core.initialize(initialLocale)
TranslationProviderEffect(initialLocale) ==
    /\ CanCall
    /\ ~Mounted
    /\ initialize(initialLocale, << >>)
    /\ obs' = Obs("TranslationProvider.useEffect", initialLocale, "none", "")
    /\ Quiet

\* React renders a component that calls the hook, between two tasks
RenderConsumer(hook, inside, raises) ==
    /\ Idle
    /\ CanRender(hook, inside, raises)
    /\ obs' = Obs(hook, Consumer(hook, inside),
                  IF raises THEN "raised" ELSE "none",
                  Hook(hook, inside, raises))
    /\ UNCHANGED <<state, stack, microtasks, promises>>
    /\ Quiet

\* the manager's round reaches the provider's listener, which calls
\* setStore; React renders later
ProviderSetsStore ==
    /\ Notifying
    /\ Top.reg = "core"
    /\ Top.todo # << >>
    /\ Top.todo[1] = "provider"
    /\ stack' = Below \o <<Taken(1)>>
    /\ obs' = Notified("", "", 1)
    /\ UNCHANGED <<state, microtasks, promises>>
    /\ Quiet

\* the provider's listener calls setStore and React renders at once a
\* consumer inside the provider
ProviderRendersConsumer(hook, raises) ==
    /\ Notifying
    /\ Top.reg = "core"
    /\ Top.todo # << >>
    /\ Top.todo[1] = "provider"
    /\ CanRender(hook, TRUE, raises)
    /\ stack' = Below \o <<Taken(1)>>
    /\ obs' = [Notified(hook, Consumer(hook, TRUE), 1) EXCEPT
                 !.engine = IF raises THEN "raised" ELSE "none",
                 !.result = Hook(hook, TRUE, raises)]
    /\ UNCHANGED <<state, microtasks, promises>>
    /\ Quiet

\* a component inside the provider calls setLocale of the store
ConsumerSetsLocale(l) ==
    /\ TranslationProvider(TranslationProviderStore).children
    /\ CallSetLocale(l)

----------------------------------------------------------------------------
(* ContextAdapter.  Its constructor copies the manager's state and        *)
(* subscribes a listener ("context") to the manager that stores the state *)
(* it is called with and then calls the adapter's own listeners with      *)
(* this.state                                                             *)

\* ContextAdapter.subscribe(listener): this.listeners.add(listener)
contextSubscribe(l, stk) ==
    /\ contextListeners' = Append(contextListeners, l)
    /\ handle' = [handle EXCEPT ![l] = "held"]
    /\ stack' = [i \in 1..Len(stk) |->
                    IF stk[i].k = "notify" /\ stk[i].reg = "context"
                    THEN [stk[i] EXCEPT !.todo = Append(@, l),
                                        !.joined = @ \cup {l}]
                    ELSE stk[i]]

\* the function ContextAdapter.subscribe returned:
\* this.listeners.delete(listener)
contextUnsubscribe(l, stk) ==
    /\ contextListeners' = Remove(contextListeners, l)
    /\ handle' = [handle EXCEPT ![l] = "called"]
    /\ stack' = [i \in 1..Len(stk) |->
                    IF stk[i].k = "notify" /\ stk[i].reg = "context"
                    THEN [stk[i] EXCEPT !.todo = Remove(@, l),
                                        !.gone = @ \cup {l}]
                    ELSE stk[i]]

\* ContextAdapter.destroy() that leaves the adapter's listeners in the Set
contextDestroyKeepsListeners ==
    /\ UNCHANGED contextListeners
    /\ destroy

\* ContextAdapter.destroy(): this.listeners.clear(); this.core.destroy()
contextDestroy ==
    /\ contextListeners' = << >>
    /\ destroy

\* the listener of the constructor that keeps the state it had
contextListenerKeepsState(newState) == contextState

\* the listener of the constructor: this.state = newState
contextListener(newState) == newState

\* nothing but the adapter's Set and the handles changes
ContextOnly ==
    UNCHANGED <<config, state, listeners, store, storeListeners, microtasks,
                promises, reentries, now, coreAt, contextState>>

CallContextSubscribe(l) ==
    /\ Idle
    /\ l \notin Range(contextListeners)
    /\ handle[l] # "held"
    /\ contextSubscribe(l, << >>)
    /\ obs' = Obs("context.subscribe", l, "none", "")
    /\ ContextOnly

CallContextUnsubscribe(l) ==
    /\ Idle
    /\ handle[l] = "held"
    /\ l \in Range(contextListeners)
    /\ contextUnsubscribe(l, << >>)
    /\ obs' = Obs("context.unsubscribe", l, "none", "")
    /\ ContextOnly

CallContextDestroy ==
    /\ Idle
    /\ "context" \in Range(listeners)
    /\ contextDestroy
    /\ obs' = Obs("context.destroy", "", "returned", "")
    /\ UNCHANGED <<config, store, storeListeners, reentries, now, coreAt,
                   contextState>>

\* the manager's round reaches the adapter's listener: it stores the state
\* and starts notifyListeners() of the adapter
ContextInvoked ==
    /\ Notifying
    /\ Top.reg = "core"
    /\ Top.todo # << >>
    /\ Top.todo[1] = "context"
    /\ contextState' = contextListener(getState)
    /\ stack' = Below \o <<Taken(1),
                           Frame("context", "notify", 0, "", ""),
                           [Round("context", getState, contextListeners)
                               EXCEPT !.fresh = Top.fresh]>>
    /\ obs' = Notified("", "", 1)
    /\ UNCHANGED <<config, state, listeners, store, storeListeners,
                   microtasks, promises, handle, reentries, now, coreAt,
                   contextListeners>>

\* while the adapter notifies, the n-th listener calls setLocale(l) of
\* getActions(), the manager's
ContextListenerSetsLocale(n, l) ==
    /\ Acting(n)
    /\ Top.reg = "context"
    /\ Len(promises) < MaxCalls
    /\ setLocale(l, Below \o <<Taken(n)>>)
    /\ obs' = Notified("setLocale", l, n)
    /\ UNCHANGED <<config, listeners, handle>>
    /\ NoDispatch

\* while the adapter notifies, the n-th listener calls an unsubscribe
\* function, its own or another's
ContextListenerUnsubscribes(n, l) ==
    /\ Acting(n)
    /\ Top.reg = "context"
    /\ handle[l] = "held"
    /\ l \in Range(contextListeners)
    /\ contextUnsubscribe(l, Below \o <<Taken(n)>>)
    /\ obs' = Notified("context.unsubscribe", l, n)
    /\ UNCHANGED <<config, state, listeners, store, storeListeners,
                   microtasks, promises, now, coreAt, contextState>>

\* every listener of the adapter left returns at once, and the adapter's
\* listener returns to the manager's round
ContextReturns ==
    /\ Len(stack) > 1
    /\ Notifying
    /\ Top.reg = "context"
    /\ \A i \in 1..Len(Top.todo) : Top.todo[i] \in UserListeners
    /\ Caller.k = "context"
    /\ stack' = Rest
    /\ obs' = RoundEnded("none")
    /\ UNCHANGED <<config, state, listeners, store, storeListeners,
                   microtasks, promises, handle, reentries, now, coreAt,
                   contextState, contextListeners>>

----------------------------------------------------------------------------
(* The manager, one subscriber, and every async method *)

\* the state after construction, with a default locale of ds configured,
\* ls subscribed, references to the manager kept at one of ws, and the
\* listeners `seen` under observation.  A ContextAdapter, if one was
\* constructed ("context" is among ls), holds the manager's state
Built(ds, ls, ws, seen) ==
    /\ config \in {[defaultLocale |-> d] : d \in ds}
    /\ state = InitialState(config)
    /\ contextState =
            IF "context" \in Range(ls) THEN InitialState(config) ELSE NoState
    /\ contextListeners = << >>
    /\ listeners = ls
    /\ store = ReduxInitialState
    /\ storeListeners = << >>
    /\ stack = << >>
    /\ microtasks = << >>
    /\ promises = << >>
    /\ handle = [l \in UserListeners |-> "none"]
    /\ reentries = 0
    /\ obs = Observed([l \in seen |-> NoState])
    /\ now = 0
    /\ coreAt \in ws

Wired(ds, ls, ws) == Built(ds, ls, ws, {})

\* no reference to the manager is kept anywhere in the store
Constructed(ds, ls) == Wired(ds, ls, {{}})

Init == Constructed({Undefined, "fr"}, << >>)

\* the methods run on; the Engine raises one of errs, or nothing
Methods(errs) ==
    \/ AwaitLoadTranslations
    \/ LoadSucceeds
    \/ \E e \in errs : LoadFails(e)
    \/ LoadReturn
    \/ RunMicrotask
    \/ MethodSettles

Next ==
    \/ \E l \in CallLocales : CallSetLocale(l)
    \/ \E l \in CallLocales : CallLoadTranslations(l)
    \/ \E l \in CallLocales \cup {Undefined} : CallInitialize(l)
    \/ CallReloadTranslations
    \/ CallSubscribe("L1")
    \/ CallUnsubscribe("L1")
    \/ \E l \in CallLocales : ListenerSetsLocale(1, l)
    \/ InitializeSetLocale
    \/ Methods(Errors)

Spec == Init /\ [][Next]_vars

----------------------------------------------------------------------------
(* The manager and two subscribers that subscribe, unsubscribe and call   *)
(* setLocale, also while they are being notified                          *)

NextSubs ==
    \/ \E l \in CallLocales : CallSetLocale(l)
    \/ \E l \in UserListeners : CallSubscribe(l)
    \/ \E l \in UserListeners : CallUnsubscribe(l)
    \/ CallDestroy
    \/ \E n \in 1..Cardinality(UserListeners), l \in CallLocales :
            ListenerSetsLocale(n, l)
    \/ \E n \in 1..Cardinality(UserListeners), l \in UserListeners :
            ListenerSubscribes(n, l)
    \/ \E n \in 1..Cardinality(UserListeners), l \in UserListeners :
            ListenerUnsubscribes(n, l)
    \/ Methods({"E1"})

SpecSubs == Init /\ [][NextSubs]_vars

----------------------------------------------------------------------------
(* The manager and its synchronous methods *)

NextQueries ==
    \/ \E l \in CallLocales : CallSetLocale(l)
    \/ CallSubscribe("L1")
    \/ \E k \in Keys, raises \in BOOLEAN : CallTranslate(k, raises)
    \/ \E k \in Keys, n \in Counts, raises \in BOOLEAN :
            CallTranslatePlural(k, n, raises)
    \/ \E raises \in BOOLEAN : CallClearCache(raises)
    \/ Methods(Errors)

SpecQueries == Init /\ [][NextQueries]_vars

----------------------------------------------------------------------------
(* The manager behind a ReduxAdapter, and the subscribers of the adapter *)

InitRedux == Constructed({Undefined}, <<"mirror">>)

NextRedux ==
    \/ \E l \in CallLocales : CallSetLocale(l)
    \/ \E l \in UserListeners : CallAdapterSubscribe(l)
    \/ \E l \in UserListeners : CallAdapterUnsubscribe(l)
    \/ \E raises \in BOOLEAN : CallClearCache(raises)
    \/ \E raises \in BOOLEAN : CallAdapterClearCache(raises)
    \/ AdapterClearCacheReturns
    \/ MirrorInvoked
    \/ MirrorDispatches
    \/ MirrorReturns
    \/ \E n \in 1..Cardinality(UserListeners), l \in UserListeners :
            StoreListenerUnsubscribes(n, l)
    \/ Methods({"E1"})

SpecRedux == InitRedux /\ [][NextRedux]_vars

----------------------------------------------------------------------------
(* The Redux binding as an application uses it: a provider's store or a   *)
(* store wired like the one of the adapter's tests, the thunks, plain     *)
(* dispatches, the adapter's actions and the hook                         *)

InitBinding ==
    Wired({Undefined}, <<"mirror">>, {createTranslationStore, WiredStore})

NextBinding ==
    \/ \E l \in CallLocales \cup {Undefined} : ReduxTranslationProvider(l)
    \/ AdapterInitializeSetError
    \/ AdapterInitializeCore
    \/ AwaitPromise
    \/ AdapterInitializeResumes
    \/ AdapterInitializeSetLoading
    \/ ProviderRendersChildren
    \/ \E op \in Thunks, l \in CallLocales \cup {Undefined} :
            DispatchThunk(op, l)
    \/ ThunkFindsNoCore
    \/ ThunkLoadTranslations
    \/ ThunkReloadTranslations
    \/ ThunkResumes
    \/ ThunkPayloadSettles
    \/ ThunkFinalAction
    \/ \E p \in ErrorPayloads : DispatchSetError(p)
    \/ DispatchReturns
    \/ MirrorInvoked
    \/ MirrorDispatches
    \/ MirrorReturns
    \/ InitializeSetLocale
    \/ Methods({"E1"})

SpecBinding == InitBinding /\ [][NextBinding]_vars

----------------------------------------------------------------------------
(* The synchronous calls on the Redux binding: the adapter's actions and  *)
(* the hook, on a manager whose locale the application switches           *)

NextCalls ==
    \/ \E l \in CallLocales : CallSetLocale(l)
    \/ \E l \in CallLocales : useReduxTranslationSetLocale(l)
    \/ \E k \in Keys, raises \in BOOLEAN : CallAdapterTranslate(k, raises)
    \/ \E k \in Keys, n \in Counts, raises \in BOOLEAN :
            CallAdapterTranslatePlural(k, n, raises)
    \/ \E fn \in Formatters, raises \in BOOLEAN : CallAdapterFormat(fn, raises)
    \/ \E fn \in ReadOnlyQueries, raises \in BOOLEAN :
            CallAdapterReadOnly(fn, raises)
    \/ DispatchReturns
    \/ Tick
    \/ MirrorInvoked
    \/ MirrorDispatches
    \/ MirrorReturns
    \/ Methods({"E1"})

SpecCalls == InitRedux /\ [][NextCalls]_vars

----------------------------------------------------------------------------
(* The store's pendingActions: the thunks, overlapping or not, on a store *)
(* with or without the manager, and addPendingAction and                  *)
(* removePendingAction dispatched by the application                      *)

InitPending == Wired({Undefined}, <<"mirror">>, {{}, WiredStore})

NextPending ==
    \/ CallSetLocale("es")
    \/ \E op \in Thunks, l \in {"fr", Undefined} : DispatchThunk(op, l)
    \/ AwaitPromise
    \/ ThunkFindsNoCore
    \/ ThunkLoadTranslations
    \/ ThunkReloadTranslations
    \/ ThunkResumes
    \/ ThunkPayloadSettles
    \/ ThunkFinalAction
    \/ \E id \in PendingActionIds : DispatchAddPendingAction(id)
    \/ \E id \in PendingActionIds : DispatchRemovePendingAction(id)
    \/ DispatchReturns
    \/ MirrorInvoked
    \/ MirrorDispatches
    \/ MirrorReturns
    \/ Methods({"E1"})

SpecPending == InitPending /\ [][NextPending]_vars

----------------------------------------------------------------------------
(* The SSR utilities: contexts are serialized, and the serialized text,    *)
(* a part of it, or another text is deserialized                           *)

InitSSR == Constructed({Undefined}, << >>)

NextSSR ==
    \/ \E c \in SSRContexts : CallSerializeContext(c)
    \/ CallDeserializeSerialized
    \/ CallDeserializeCut
    \/ \E s \in OtherTexts : CallDeserializeContext(s)

SpecSSR == InitSSR /\ [][NextSSR]_vars

----------------------------------------------------------------------------
(* The SSR utilities: getTranslation and the Engine calls it makes *)

NextSSRLoad ==
    \/ \E l \in SSRLoadLocales, raises \in BOOLEAN :
            CallGetTranslation(l, raises)
    \/ \E keys \in KeyLists, raises \in BOOLEAN :
            GetTranslationGetKeys(keys, raises)
    \/ \E raises \in BOOLEAN : GetTranslationTranslate(raises)

SpecSSRLoad == InitSSR /\ [][NextSSRLoad]_vars

----------------------------------------------------------------------------
(* The manager whose locale the application switches, and TranslatedText  *)
(* rendered at any time in between                                         *)

InitText == Constructed({Undefined, "fr"}, <<"provider">>)

NextText ==
    \/ \E l \in CallLocales : CallSetLocale(l)
    \/ \E p \in TranslatedTextProps, raises \in BOOLEAN :
            RenderTranslatedText(p, raises)
    \/ \E p \in TranslatedTextProps, raises \in BOOLEAN :
            ProviderRendersText(p, raises)
    \/ Methods({"E1"})

SpecText == InitText /\ [][NextText]_vars

----------------------------------------------------------------------------
(* TranslationProvider from its first render on, and consumers of its     *)
(* context inside and outside its subtree                                  *)

NextProvider ==
    \/ \E l \in {Undefined, "fr"} : TranslationProviderEffect(l)
    \/ \E hook \in Hooks, inside \in BOOLEAN, raises \in BOOLEAN :
            RenderConsumer(hook, inside, raises)
    \/ ProviderSetsStore
    \/ \E hook \in Hooks, raises \in BOOLEAN :
            ProviderRendersConsumer(hook, raises)
    \/ \E l \in CallLocales : ConsumerSetsLocale(l)
    \/ InitializeSetLocale
    \/ Methods({"E1"})

SpecProvider == InitText /\ [][NextProvider]_vars

----------------------------------------------------------------------------
(* The manager and one subscriber, where a method that can run on does:   *)
(* the Engine's methods are synchronous, listeners return, and the        *)
(* microtask queue is drained                                             *)

NextLive ==
    \/ \E l \in CallLocales : CallSetLocale(l)
    \/ CallLoadTranslations("fr")
    \/ \E l \in {Undefined, "es"} : CallInitialize(l)
    \/ CallReloadTranslations
    \/ CallSubscribe("L1")
    \/ ListenerSetsLocale(1, "es")
    \/ InitializeSetLocale
    \/ Methods({"E1"})

SpecLive ==
    /\ Init
    /\ [][NextLive]_vars
    /\ WF_vars(InitializeSetLocale \/ Methods({"E1"}))

----------------------------------------------------------------------------
(* The manager, the Redux adapter that mirrors it, and subscribers of the *)
(* adapter that call the manager's setLocale while the store notifies     *)

NextMirror ==
    \/ \E l \in CallLocales : CallSetLocale(l)
    \/ \E l \in UserListeners : CallAdapterSubscribe(l)
    \/ MirrorInvoked
    \/ MirrorDispatches
    \/ MirrorReturns
    \/ \E n \in 1..Cardinality(UserListeners) :
            StoreListenerSetsLocale(n, "es")
    \/ \E l \in CallLocales : CallAdapterSetLocale(l)
    \/ AwaitPromise
    \/ AdapterSetLocaleResumes
    \/ AdapterSetLocaleResolves
    \/ Methods({"E1"})

SpecMirror == InitRedux /\ [][NextMirror]_vars

----------------------------------------------------------------------------
(* ReduxAdapter.initialize, called by the provider's effect on a store    *)
(* that may hold an error of earlier use, with the adapter mirroring the  *)
(* manager and subscribers of the adapter looking on                      *)

NextInitialize ==
    \/ \E p \in ErrorPayloads : ~Mounted /\ DispatchSetError(p)
    \/ DispatchReturns
    \/ \E l \in UserListeners : CallAdapterSubscribe(l)
    \/ \E l \in CallLocales \cup {Undefined} : ReduxTranslationProvider(l)
    \/ AdapterInitializeSetError
    \/ AdapterInitializeCore
    \/ AwaitPromise
    \/ AdapterInitializeResumes
    \/ AdapterInitializeSetLoading
    \/ ProviderRendersChildren
    \/ MirrorInvoked
    \/ MirrorDispatches
    \/ MirrorReturns
    \/ InitializeSetLocale
    \/ Methods({"E1"})

SpecInitialize == InitBinding /\ [][NextInitialize]_vars

----------------------------------------------------------------------------
(* The Redux adapter with subscribers, dispatches made through the hook,  *)
(* updates of the manager, and destroy()                                  *)

NextDestroy ==
    \/ \E l \in CallLocales : CallSetLocale(l)
    \/ \E l \in UserListeners : CallAdapterSubscribe(l)
    \/ \E l \in UserListeners : CallAdapterUnsubscribe(l)
    \/ CallAdapterDestroy
    \/ \E l \in CallLocales : useReduxTranslationSetLocale(l)
    \/ DispatchReturns
    \/ MirrorInvoked
    \/ MirrorDispatches
    \/ MirrorReturns
    \/ Methods({"E1"})

SpecDestroy == InitRedux /\ [][NextDestroy]_vars

----------------------------------------------------------------------------
(* The manager with a ContextAdapter constructed on it, and two listeners *)
(* of the application, each subscribed to the manager or to the adapter,  *)
(* that call setLocale or unsubscribe while they are being notified       *)

InitContext ==
    Built({Undefined}, <<"context">>, {{}}, UserListeners)

NextContext ==
    \/ \E l \in CallLocales : CallSetLocale(l)
    \/ \E l \in UserListeners : CallSubscribe(l)
    \/ \E l \in UserListeners : CallContextSubscribe(l)
    \/ CallContextDestroy
    \/ \E n \in 1..Cardinality(UserListeners) : ListenerSetsLocale(n, "es")
    \/ \E n \in 1..Cardinality(UserListeners) :
            ContextListenerSetsLocale(n, "fr")
    \/ \E n \in 1..Cardinality(UserListeners), l \in UserListeners :
            ContextListenerUnsubscribes(n, l)
    \/ ContextInvoked
    \/ ContextReturns
    \/ Methods({"E1"})

SpecContext == InitContext /\ [][NextContext]_vars

----------------------------------------------------------------------------
(* Properties of TranslationCore's async methods, checked under Spec *)

\* the map that sends each key of getKeys(l) to translate(k, l)
TranslationsFor(l) ==
    [k \in Range(EngineKeys(l)) |-> EngineTranslate(k, l)]

\* setLocale('fr') was called, setLocale('es') was called before it had
\* settled, no other call was made, and both have resolved
SetLocalePairResolved ==
    /\ Len(promises) = 2
    /\ promises[1].op = "setLocale" /\ promises[1].arg = "fr"
    /\ promises[2].op = "setLocale" /\ promises[2].arg = "es"
    /\ promises[2].ov
    /\ \A i \in 1..2 : promises[i].st = "resolved"

\* C1: when setLocale('fr') and then, before it has settled, setLocale('es')
\* are called, each writes the locale at once and replaces the
\* translations when its own load completes: after both have resolved the
\* locale is 'es' and the translations are the map of whichever load
\* completed last, the one of 'fr' or the one of 'es'
C1_LocaleOfLastCallTranslationsOfLastLoad ==
    SetLocalePairResolved =>
        /\ state.locale = "es"
        /\ state.translations \in {TranslationsFor("fr"), TranslationsFor("es")}

\* C1, the execution the claim says exists: both calls have resolved, the
\* locale is 'es' and the translations are those loaded for 'fr'
C1_LocaleEsTranslationsFr ==
    /\ SetLocalePairResolved
    /\ state.locale = "es"
    /\ state.translations = TranslationsFor("fr")

\* C5: a setLocale(l) call made when the state's locale is l changes no
\* state field, starts no notification round, calls no Engine method,
\* parks no continuation, and its promise is resolved when it returns
C5_SetLocaleSameLocaleIsNoOp ==
    [][(obs'.call = "setLocale" /\ obs'.arg = state.locale) =>
            /\ state' = state
            /\ obs'.engine = "none"
            /\ Len(stack') = Len(stack)
            /\ microtasks' = microtasks
            /\ promises'[Len(promises')].st = "resolved"
            /\ promises'[Len(promises')].eng = "none"]_vars

\* C5, its case: setLocale was just called with the current locale and has
\* returned at once
C5_SameLocaleCalled ==
    /\ obs.call = "setLocale"
    /\ obs.arg = state.locale
    /\ promises # << >>
    /\ promises[Len(promises)].st = "resolved"
    /\ promises[Len(promises)].eng = "none"
    /\ state.translations # << >>

\* the promise i of an initialize, setLocale or loadTranslations call has
\* just rejected
JustRejected(i) ==
    /\ obs.settled = i
    /\ promises[i].st = "rejected"
    /\ promises[i].op \in {"initialize", "setLocale", "loadTranslations"}

InitializeJustResolved(i) ==
    /\ obs.settled = i
    /\ promises[i].op = "initialize"
    /\ promises[i].st = "resolved"
    /\ ~promises[i].ov

\* C7: when initialize(l) resolves with no other call overlapping it, the
\* locale is l, or the configured default locale, else 'en', when l is
\* omitted; isInitialized is true, isLoading false and error null
C7_InitializeResolves ==
    \A i \in 1..Len(promises) :
        InitializeJustResolved(i) =>
            /\ state.locale =
                  IF promises[i].arg # Undefined THEN promises[i].arg
                  ELSE IF config.defaultLocale # Undefined
                       THEN config.defaultLocale ELSE "en"
            /\ state.isInitialized
            /\ ~state.isLoading
            /\ state.error = Null

\* C7, its case: initialize('es') has just resolved, nothing overlapping it,
\* on a manager whose configured default locale is 'fr'
C7_InitializeEsResolved ==
    \E i \in 1..Len(promises) :
        /\ InitializeJustResolved(i)
        /\ promises[i].arg = "es"
        /\ config.defaultLocale = "fr"

\* C8 as stated: when loadTranslations(l) has succeeded, the translations
\* field is exactly the map of l's keys to their translations
C8_TranslationsWhenLoadReturns ==
    obs.loaded # "" => state.translations = TranslationsFor(obs.loaded)

\* loadTranslations has made its last update without raising and no other
\* update was made since
LoadJustStored ==
    /\ Len(stack) > 1
    /\ Caller.k = "loadTranslations"
    /\ Caller.pc = "return"
    /\ Caller.out = "ok"
    /\ Top.fresh

\* C8 amended: the update loadTranslations(l) makes when it succeeds sets
\* the translations field to exactly the map of l's keys to their
\* translations, nothing of an earlier load left; the field still is that
\* map when the call returns unless a listener, while being notified of
\* that update, has triggered another state update
C8_TranslationsReplacedByLoad ==
    /\ LoadJustStored => state.translations = TranslationsFor(Caller.arg)
    /\ (obs.loaded # "" /\ obs.round.fresh) =>
            state.translations = TranslationsFor(obs.loaded)

\* C8, its case: a load for 'es' has just returned on a manager that held
\* the translations of 'fr' before
C8_SecondLoadReturned ==
    /\ obs.loaded = "es"
    /\ obs.round.fresh
    /\ \E i \in 1..Len(promises) : promises[i].arg = "fr" /\ promises[i].eng = "ok"
    /\ state.translations = TranslationsFor("es")

----------------------------------------------------------------------------
(* Properties of the manager's notification rounds, checked under SpecSubs *)

\* a notification round of the manager has just ended
RoundOver == obs.round.k = "notify" /\ obs.round.reg = "core"

\* the listeners invoked in round r, and how often r invoked l
InvokedIn(r) == {r.inv[i].listener : i \in 1..Len(r.inv)}

TimesIn(r, l) == Cardinality({i \in 1..Len(r.inv) : r.inv[i].listener = l})

----------------------------------------------------------------------------
(* Properties of the synchronous methods, checked under SpecQueries *)

\* C9: translate and translatePlural never raise: they return the Engine's
\* result for the state's current locale, or the unchanged key when the
\* Engine raises; no state field changes and no listener is notified
C9_TranslateFallsBackToKey ==
    [][/\ obs'.call = "translate" =>
            /\ obs'.result = IF obs'.engine = "raised" THEN obs'.arg
                             ELSE EngineTranslate(obs'.arg, state.locale)
            /\ UNCHANGED <<state, stack, microtasks, listeners>>
            /\ obs'.invoked = << >>
       /\ obs'.call = "translatePlural" =>
            /\ obs'.result = IF obs'.engine = "raised" THEN obs'.arg[1]
                             ELSE EngineTranslatePlural(obs'.arg[1],
                                      obs'.arg[2], state.locale)
            /\ UNCHANGED <<state, stack, microtasks, listeners>>
            /\ obs'.invoked = << >>]_vars

\* C9, its case: translate was called for a key the current locale has, the
\* Engine raised, and the key came back
C9_TranslateRaised ==
    /\ obs.call = "translate"
    /\ obs.engine = "raised"
    /\ obs.arg \in Range(EngineKeys(state.locale))
    /\ obs.result = obs.arg
    /\ listeners # << >>

----------------------------------------------------------------------------
(* Properties of the Redux binding, checked under SpecRedux *)

\* C2: once the unsubscribe function that subscribe returned has been
\* called, the listener is never invoked again: no step invokes a listener
\* whose unsubscribe function had been called before the step
C2_NotInvokedAfterUnsubscribe ==
    [][\A i \in 1..Len(obs'.invoked) :
            obs'.invoked[i].listener \in UserListeners =>
                handle[obs'.invoked[i].listener] # "called"]_vars

\* C10: clearCache on the manager leaves every field of the manager's
\* state, and the store, unchanged; the Redux adapter's clearCache action
\* leaves the manager's state unchanged and, when the manager's clearCache
\* has returned, sets the store's translations to the empty map
C10_ClearCacheManagerAndStore ==
    [][/\ obs'.call = "clearCache" => state' = state /\ store' = store
       /\ obs'.call = "adapter.clearCache" =>
            /\ state' = state
            /\ obs'.engine = "returned" => store'.translations = << >>
            /\ obs'.engine = "raised" => store' = store]_vars

\* C10, its case: the adapter's clearCache action has run on a store that
\* mirrored loaded translations; the manager still holds them
C10_StoreClearedManagerNot ==
    /\ obs.call = "adapter.clearCache"
    /\ obs.engine = "returned"
    /\ state.translations # << >>
    /\ store.translations = << >>

\* the fields of the store that mirror the manager's state
MirroredFields == {"locale", "translations", "isLoading", "error",
                   "isInitialized"}

Mirrored(s) == [f \in MirroredFields |-> s[f]]

\* the adapter's listener is between two of its dispatches, or past its
\* last one: the store is notifying its subscribers of one of them
Mirroring ==
    /\ Len(stack) > 1
    /\ Notifying
    /\ Top.reg = "store"
    /\ Caller.k = "mirror"

\* C11: while the adapter mirrors one update of the manager, the store
\* passes through states that mix the old and the new values: after the
\* j-th of the five dispatches (translations, locale, isLoading, error,
\* isInitialized, in this order) the first j of these fields hold the
\* values of the manager's new state and the others still hold what the
\* store held before the first dispatch; the store's subscribers are
\* notified in each of these states
C11_StoreMixesOldAndNewWhileMirroring ==
    Mirroring =>
        LET j      == Caller.id - 1
            before == Caller.out
            after  == Caller.produced
        IN  /\ j \in 1..5
            /\ store.translations =
                    IF j >= 1 THEN after.translations ELSE before.translations
            /\ store.locale = IF j >= 2 THEN after.locale ELSE before.locale
            /\ store.isLoading =
                    IF j >= 3 THEN after.isLoading ELSE before.isLoading
            /\ store.error =
                    IF j >= 4 THEN serializeError(after.error)
                    ELSE before.error
            /\ store.isInitialized =
                    IF j >= 5 THEN after.isInitialized
                    ELSE before.isInitialized

\* the manager's state s as a subscriber of the adapter would read it from
\* a store that mirrors it exactly
AsRead(s) ==
    [Mirrored(s) EXCEPT !.error = deserializeError(serializeError(@))]

\* C11, its case: during the mirroring of one update a subscriber of the
\* store was called with a state that is neither the manager's state
\* before the update nor its state after it
C11_SubscriberSawNeitherOldNorNew ==
    /\ Mirroring
    /\ \E i \in 1..Len(obs.invoked) :
        /\ obs.invoked[i].listener \in UserListeners
        /\ Mirrored(obs.invoked[i].snapshot) # AsRead(Caller.arg)
        /\ Mirrored(obs.invoked[i].snapshot) # AsRead(Caller.produced)

----------------------------------------------------------------------------
(* Properties of the Redux binding in use, checked under SpecBinding *)

\* C12: in every reachable state the store's error is null or a plain
\* record { message, name, stack }: never a native error value, never
\* undefined, whichever way it was written (the mirror of a manager error,
\* the catch block of the adapter's initialize, a rejected thunk, a
\* setError action with an Error, a record, null or undefined)
C12_StoreErrorIsNullOrRecord ==
    /\ store.error \in {Null} \cup SerializableErrors
    /\ store.error \notin NativeErrors \cup {Undefined}

\* C12, its case: setError was dispatched with an Error object and the
\* store holds the record made of it
C12_ErrorObjectStoredAsRecord ==
    /\ obs.call = "setError"
    /\ obs.arg \in NativeErrors
    /\ store.error = "{message: " \o obs.arg \o "}"

\* no activation of a thunk in fs is at the await of a manager method
NoThunkAwaits(fs) ==
    \A i \in 1..Len(fs) :
        fs[i].k \in Thunks => fs[i].pc \notin {"await", "awaitPromise"}

\* the final action of thunk i has just been dispatched
ThunkJustSettled(i) ==
    /\ i \in 1..Len(promises)
    /\ obs.settled = i
    /\ promises[i].op \in Thunks

\* C13: when loadTranslationsAsync or reloadTranslationsAsync runs and no
\* manager is found through the store, the thunk never gets to call a
\* method of the manager, it is rejected with 'Translation core not
\* initialized', and the rejected action leaves the store with isLoading
\* false, that error in serialized form, and the thunk's identifier absent
\* from pendingActions
C13_ThunkWithoutManagerIsRejected ==
    ~CoreFound =>
        /\ NoThunkAwaits(stack)
        /\ NoThunkAwaits(microtasks)
        /\ \A i \in 1..Len(promises) :
            promises[i].op \in Thunks =>
                /\ promises[i].eng = "none"
                /\ promises[i].st # "resolved"
                /\ promises[i].st = "rejected" =>
                        promises[i].err = NotInitialized
                /\ ThunkJustSettled(i) =>
                    /\ store.isLoading = FALSE
                    /\ store.error =
                        "{message: Translation core not initialized}"
                    /\ PendingId(promises[i].op)
                            \notin Range(store.pendingActions)

\* C13, its case: reloadTranslationsAsync was dispatched on a store through
\* which no manager is found, and its rejected action has been dispatched
C13_ReloadThunkRejected ==
    /\ ~CoreFound
    /\ \E i \in 1..Len(promises) :
        /\ ThunkJustSettled(i)
        /\ promises[i].op = "reloadTranslationsAsync"
        /\ promises[i].st = "rejected"

\* thunk i called the manager method it is for
CalledManager(i) ==
    IF promises[i].op = "loadTranslationsAsync"
    THEN promises[i].eng # "none"
    ELSE \E j \in 1..Len(promises) :
            j > i /\ promises[j].op = "reloadTranslations"

\* C14: in a store that ReduxTranslationProvider created itself, every
\* thunk whose final action has been dispatched found the manager: it called loadTranslations, or
\* reloadTranslations, and was not rejected with 'Translation core not
\* initialized'
C14_ProviderStoreThunksReachManager ==
    coreAt = createTranslationStore =>
        \A i \in 1..Len(promises) :
            promises[i].op \in Thunks /\ promises[i].st # "pending" =>
                /\ CalledManager(i)
                /\ promises[i].err # NotInitialized

\* C16: pendingActions contains 'loadTranslations' in exactly the states
\* in which a dispatched loadTranslationsAsync has not had its fulfilled
\* or rejected action dispatched, and likewise 'reloadTranslations' for
\* reloadTranslationsAsync, also when several thunks overlap
C16_PendingActionsAreThunksInFlight ==
    \A op \in Thunks :
        PendingId(op) \in Range(store.pendingActions)
            <=> \E i \in 1..Len(promises) :
                    promises[i].op = op /\ promises[i].st = "pending"

\* C18: when ReduxTranslationProvider, given initialLocale, renders its
\* children after a successful initialization, the manager's locale and
\* the store's locale are both initialLocale
C18_ProviderInitializesWithInitialLocale ==
    /\ obs.call = "ReduxTranslationProvider.children"
    /\ obs.result = "ok"
    /\ obs.arg # Undefined
    => state.locale = obs.arg /\ store.locale = obs.arg

----------------------------------------------------------------------------
\* C15: through the adapter's actions, getTextDirection and isRTLLocale
\* dispatch nothing, so the store's state, lastUpdated included, is after
\* the call what it was before; translate, translatePlural, formatDate and
\* formatNumber change no field of the store other than lastUpdated
AdapterQueries == {"adapter." \o fn : fn \in ReadOnlyQueries}

AdapterStamping ==
    {"adapter.translate", "adapter.translatePlural"}
        \cup {"adapter." \o fn : fn \in Formatters}

C15_QueriesLeaveStoreOthersOnlyStamp ==
    [][/\ obs'.call \in AdapterQueries =>
            store' = store /\ stack' = stack
       /\ obs'.call \in AdapterStamping =>
            [store' EXCEPT !.lastUpdated = store.lastUpdated] = store]_vars

\* translate was called after the clock had advanced, and lastUpdated is
\* the time of the call
C15_TranslateStampedTheStore ==
    /\ obs.call = "adapter.translate"
    /\ now > 0
    /\ store.lastUpdated = now

\* C17: after setLocale(l) of the useReduxTranslation hook the manager's
\* locale is l and so is the store's
C17_HookSetLocaleSwitchesManager ==
    obs.call = "useReduxTranslation.setLocale" =>
        /\ state.locale = obs.arg
        /\ store.locale = obs.arg

----------------------------------------------------------------------------
\* deep equality of two JavaScript values: the same type and the same
\* content, the members of an object in any order
RECURSIVE JSEquals(_, _)
JSEquals(a, b) ==
    /\ a.t = b.t
    /\ CASE a.t \in {"string", "number", "boolean"} -> a.v = b.v
         [] a.t = "array" ->
                /\ Len(a.v) = Len(b.v)
                /\ \A i \in 1..Len(a.v) : JSEquals(a.v[i], b.v[i])
         [] a.t = "object" ->
                /\ {a.v[i].k : i \in 1..Len(a.v)}
                        = {b.v[i].k : i \in 1..Len(b.v)}
                /\ Len(a.v) = Len(b.v)
                /\ \A i \in 1..Len(a.v) :
                        JSEquals(a.v[i].v, Get(b, a.v[i].k))
         [] OTHER -> TRUE

SSRFields == {locale, translations, preloadedLocales}

\* C19: for every well-formed SSRContext c,
\* deserializeContext(serializeContext(c)) equals c field by field
Serialized == {<<c, serializeContext(c)>> : c \in SSRContexts}

C19_DeserializeInvertsSerialize ==
    \A p \in Serialized :
        obs.call = "deserializeContext" /\ obs.arg = p[2] =>
            /\ obs.result.t = "object"
            /\ \A f \in SSRFields :
                    JSEquals(Get(obs.result, f), Get(p[1], f))

\* a context whose translations hold a quote, a backslash and a line
\* break, with preloaded locales, has made the round trip
C19_RoundTripOfQuotedText ==
    /\ obs.call = "deserializeContext"
    /\ obs.result.t = "object"
    /\ Len(Get(obs.result, translations).v) = Len(SSRKeys)
    /\ \E i \in 1..Len(obs.arg) : obs.arg[i] = Backslash
    /\ Get(obs.result, preloadedLocales).t = "array"
    /\ Len(Get(obs.result, preloadedLocales).v) = MaxPreloaded
    /\ obs.arg = serializeContext(obs.result)

\* the text is not valid JSON, or it is JSON without the fields of a context
Malformed(s) ==
    \/ JSONparse(s).t = "SyntaxError"
    \/ \E f \in SSRFields : Get(JSONparse(s), f).t = "undefined"

\* C20: for every malformed text s, not valid JSON or valid JSON that
\* lacks the SSRContext fields, deserializeContext(s) does not raise and
\* returns { locale: 'en', translations: {}, preloadedLocales: [] }
C20_MalformedTextGivesDefaultContext ==
    obs.call = "deserializeContext" /\ Malformed(obs.arg) =>
        /\ obs.engine = "returned"
        /\ JSEquals(obs.result, DefaultContext)

----------------------------------------------------------------------------
\* C21: getTranslation(locale) never rejects, and when reloading the
\* Engine, enumerating its keys or translating a key raises, its result is
\* the empty map, never a partly filled one
C21_GetTranslationEmptyOnException ==
    obs.call = "getTranslation" =>
        /\ obs.result.st = "resolved"
        /\ obs.engine = "raised" => obs.result.value = << >>
        /\ obs.engine = "returned" =>
                Len(obs.result.value) = obs.result.translated

\* translate raised after a key had been translated
C21_RaisedAfterFirstKey ==
    /\ obs.call = "getTranslation"
    /\ obs.engine = "raised"
    /\ obs.result.translated > 0

----------------------------------------------------------------------------
(* Properties of TranslatedText, checked under SpecText.  A fallback or    *)
(* children count as given when they are not undefined, null or the empty  *)
(* string, which is how the component tests them.                          *)

\* the last step rendered TranslatedText while the binding was neither
\* loading nor in error
RenderedText ==
    /\ obs.call = "TranslatedText"
    /\ ~state.isLoading
    /\ state.error = Null

\* the last step rendered TranslatedText while the binding was loading or
\* in error
RenderedEarly ==
    /\ obs.call = "TranslatedText"
    /\ state.isLoading \/ state.error # Null

FallbackOrKey ==
    IF obs.arg.fallback \in Falsy THEN obs.arg.translationKey
    ELSE obs.arg.fallback

C23_ChildrenRenderedInEveryState ==
    obs.call = "TranslatedText" /\ obs.arg.children \notin Falsy =>
        obs.result.rendered = obs.arg.children

\* C23: when the binding is neither loading nor in error, children that
\* are passed are what TranslatedText renders, whether the key is resolved
\* or not and whether a fallback is given or not
C23_ChildrenRenderedUnlessLoadingOrError ==
    RenderedText /\ obs.arg.children \notin Falsy =>
        obs.result.rendered = obs.arg.children

\* children won over the fallback of a key that was not resolved
C23_ChildrenOverFallback ==
    /\ RenderedText
    /\ obs.arg.children = "Children"
    /\ obs.arg.fallback = "Fallback"
    /\ obs.result.returned = obs.arg.translationKey
    /\ obs.result.rendered = "Children"

C25_LocalePropSelectsLocale ==
    /\ RenderedText
    /\ obs.arg.locale \notin Falsy
    /\ obs.engine = "returned"
    => /\ obs.result.called = "translate"
       /\ obs.result.returned = TextFor(obs.arg.translationKey,
                                        obs.arg.locale)

----------------------------------------------------------------------------
\* C26: useTranslationStore, and so useTranslation and useLocale, raises
\* 'useTranslationStore must be used within a TranslationProvider' exactly
\* when no store is available from an enclosing TranslationProvider;
\* TranslationProvider never renders its children while its store is
\* unset, so a consumer inside a provider never raises that error
C26_HookRaisesExactlyOutsideProvider ==
    obs.call \in Hooks =>
        /\ obs.result = NoProviderError <=> obs.arg.value = Null
        /\ obs.arg.inside => /\ obs.arg.value # Null
                             /\ obs.result # NoProviderError

\* a consumer inside the provider was rendered while initialize was still
\* pending, and got the store
C26_ConsumerInsideWhileInitializing ==
    /\ obs.call \in Hooks
    /\ obs.arg.inside
    /\ obs.result = "store"
    /\ \E i \in 1..Len(promises) :
            promises[i].op = "initialize" /\ promises[i].st = "pending"

----------------------------------------------------------------------------
\* every async call made has settled and nothing waits to run
AllSettled ==
    /\ stack = << >>
    /\ microtasks = << >>
    /\ \A i \in 1..Len(promises) : promises[i].st # "pending"

\* only setLocale was called, at least twice, each call but the first
\* before the one before it had settled
SetLocaleCallsOverlap ==
    /\ Len(promises) > 1
    /\ \A i \in 1..Len(promises) : promises[i].op = "setLocale"
    /\ \A i \in 2..Len(promises) : promises[i].ov

\* C27: when several setLocale calls overlap and the one issued last
\* succeeds, then after all of them have settled the state's error is
\* null
C27_NoErrorAfterLastSetLocaleSucceeds ==
    /\ AllSettled
    /\ SetLocaleCallsOverlap
    /\ promises[Len(promises)].st = "resolved"
    /\ promises[Len(promises)].eng = "ok"
    => state.error = Null

\* C28: in every reachable state of TranslationCore, and in every
\* snapshot delivered to a listener, isLoading = true implies error = null
C28_LoadingImpliesNoError ==
    /\ state.isLoading => state.error = Null
    /\ \A i \in 1..Len(obs.invoked) :
            obs.invoked[i].snapshot.isLoading =>
                obs.invoked[i].snapshot.error = Null

\* a listener was called with a loading snapshot after a call had failed
C28_LoadingSnapshotAfterFailure ==
    /\ obs.invoked # << >>
    /\ obs.invoked[1].snapshot.isLoading
    /\ \E i \in 1..Len(promises) : promises[i].st = "rejected"


\* an async call has begun and has not settled
Executing(i) == i <= Len(promises) /\ promises[i].st = "pending"

SetLocaleFailed ==
    /\ Len(stack) > 1
    /\ Caller.k = "setLocale"
    /\ Caller.pc = "settle"
    /\ Caller.out # "ok"

\* no other async call began while the call was running
Alone(id) == ~promises[id].ov

----------------------------------------------------------------------------
(* Properties of loadTranslations and reloadTranslations, checked under   *)
(* Spec                                                                   *)

\* the step is an update made by loadTranslations: its first one (called by
\* the application, or by setLocale, initialize or reloadTranslations), or
\* the one that ends its try block or its catch block
LoadTranslationsUpdates ==
    /\ Len(stack') > 1
    /\ stack'[Len(stack') - 1].k = "loadTranslations"
    /\ \/ stack'[Len(stack') - 1].pc = "engine"
       \/ /\ stack'[Len(stack') - 1].pc = "return"
          /\ Len(stack) > 1
          /\ Caller.k = "loadTranslations"
          /\ Caller.pc = "engine"

\* a loadTranslations(l) call of the application has just resolved, and no
\* other async call began while it ran
LoadAloneResolved ==
    /\ obs.settled > 0
    /\ promises[obs.settled].op = "loadTranslations"
    /\ promises[obs.settled].st = "resolved"
    /\ Alone(obs.settled)

\* C31: no update made by loadTranslations, for the application or for
\* reloadTranslations, changes the locale, whether the load succeeds or
\* fails; and when loadTranslations(l) has resolved, translations is l's map
C31_LoadTranslationsKeepsLocale ==
    /\ [][LoadTranslationsUpdates => state'.locale = state.locale]_vars
    /\ [](LoadAloneResolved =>
            state.translations = TranslationsFor(promises[obs.settled].arg))

\* loadTranslations('es') has resolved on a manager whose locale is not
\* 'es': translations are those of 'es', the locale is the previous one
C31_LoadedEsLocaleNotEs ==
    /\ LoadAloneResolved
    /\ promises[obs.settled].arg = "es"
    /\ state.locale # "es"
    /\ state.translations = TranslationsFor("es")
    /\ state.translations # << >>


----------------------------------------------------------------------------
(* Properties of the notification rounds of the manager and of the        *)
(* ContextAdapter, checked under SpecContext                              *)

\* the listeners subscribed to the manager or to the adapter that have been
\* called since they subscribed
DeliveredTo ==
    {l \in (Range(listeners) \cup Range(contextListeners)) \cap UserListeners :
        obs.delivered[l] # NoState}

\* C32: once an update and every listener invocation it causes have
\* returned, the snapshot delivered last to each listener still subscribed
\* to the manager or to the ContextAdapter is the current state, also when
\* listeners made further updates while being notified
C32_LastSnapshotIsCurrentState ==
    Idle => \A l \in DeliveredTo : obs.delivered[l] = state

\* a listener of the adapter made an update while it was being notified,
\* and every round has returned with both kinds of listener subscribed
C32_RoundsReturnedAfterReentry ==
    /\ Idle
    /\ reentries > 0
    /\ DeliveredTo \cap Range(listeners) # {}
    /\ DeliveredTo \cap Range(contextListeners) # {}
    /\ \E i \in 1..Len(obs.round.inv) : ~obs.round.inv[i].fresh


----------------------------------------------------------------------------
(* Properties of the Redux adapter's mirroring with subscribers that call *)
(* the manager, checked under SpecMirror                                  *)

\* the adapter's listener has made the last of its dispatches for one
\* update of the manager
MirrorFinished ==
    /\ Mirroring
    /\ Caller.id > Len(MirrorActions(Caller.produced))

\* the store holds the manager's state, the error as a record
StoreEqualsManager ==
    /\ store.locale = state.locale
    /\ store.translations = state.translations
    /\ store.isLoading = state.isLoading
    /\ store.isInitialized = state.isInitialized
    /\ store.error = Null <=> state.error = Null
    /\ state.error # Null => store.error = "{message: " \o state.error \o "}"

\* C33: each time the adapter has finished mirroring an update of the
\* manager, no subscriber of the store having called the manager meanwhile,
\* the store's locale, translations, isLoading and isInitialized are the
\* manager's, and its error is null exactly when the manager's is, and
\* otherwise the record of the manager's error
C33_StoreEqualsManagerAfterMirroring ==
    MirrorFinished /\ Caller.fresh => StoreEqualsManager

\* the adapter has finished mirroring a state with an error and with the
\* translations of an earlier load, within a call that a subscriber of the
\* store made
C33_MirroredErrorWithinReentry ==
    /\ MirrorFinished /\ Caller.fresh
    /\ state.error # Null
    /\ state.translations # << >>
    /\ store.error \in SerializableErrors
    /\ \E i \in 1..Len(Rest) : Rest[i].k = "mirror"


\* the promise of the adapter's setLocale action has just settled; obs.round
\* is the action's activation
AdapterSetLocaleSettled ==
    /\ obs.call = "adapter.setLocale"
    /\ obs.result # ""

AdapterSetLocaleRejected ==
    /\ AdapterSetLocaleSettled
    /\ obs.result # "ok"

----------------------------------------------------------------------------
(* Properties of ReduxAdapter.initialize, checked under SpecInitialize    *)

\* an activation of method k is parked at an await
Parked(k) ==
    \/ \E i \in 1..Len(microtasks) : microtasks[i].k = k
    \/ \E i \in 1..Len(promises) :
            \E j \in 1..Len(promises[i].then) : promises[i].then[j].k = k

\* initialize of the adapter has been called and waits for the manager's
\* initialize, nothing else running
AdapterInitializeWaits == Idle /\ Parked("adapter.initialize")

\* initialize of the adapter has just settled
AdapterInitializeSettled == obs.call = "ReduxTranslationProvider.children"

----------------------------------------------------------------------------
(* Properties of the adapters' subscribers, checked under SpecDestroy     *)

\* the listeners of the application called in the most recent step
InvokedNow ==
    {obs.invoked[i].listener : i \in 1..Len(obs.invoked)} \cap UserListeners

\* the Redux adapter was destroyed: its listener is off the manager
AdapterDestroyed == "mirror" \notin Range(listeners)

\* C36: after destroy() of the adapter no listener registered through the
\* adapter's subscribe is invoked again
C36_NoSubscriberInvokedAfterDestroy ==
    AdapterDestroyed => InvokedNow = {}

\* the same for the ContextAdapter, under SpecContext: once its listener is
\* off the manager, no round of the adapter runs
ContextSilentAfterDestroy ==
    "context" \notin Range(listeners) =>
        /\ \A i \in 1..Len(stack) : stack[i].reg # "context"
        /\ \A l \in Range(contextListeners) : obs.delivered[l] = NoState

\* C37: a listener registered with ReduxAdapter.subscribe is invoked after
\* a dispatch only if the dispatch changed the translation state
C37_SubscriberInvokedOnlyOnChange ==
    obs.round.reg = "store" /\ obs.round.out = "unchanged" =>
        InvokedNow = {}

----------------------------------------------------------------------------
(* Properties of the ContextAdapter's copy of the state, checked under    *)
(* SpecContext                                                            *)

\* the adapter's listener is in the manager's Set: the adapter was
\* constructed and not destroyed
ContextAdapterAlive == "context" \in Range(listeners)

\* the adapter is notifying its own listeners
ContextNotifying ==
    /\ stack # << >>
    /\ Top.k = "notify"
    /\ Top.reg = "context"

----------------------------------------------------------------------------
(* Properties of the store's pendingActions, checked under SpecPending *)

NoIdentifierTwice(pending) ==
    \A i, j \in 1..Len(pending) : pending[i] = pending[j] => i = j

\* C39: in every reachable store state pendingActions contains no
\* identifier twice, whatever addPendingAction, removePendingAction and
\* pending, fulfilled and rejected actions of the thunks were dispatched;
\* a removePendingAction of an identifier that is absent leaves the store
\* as it was
C39_PendingActionsHoldsNoIdentifierTwice ==
    /\ [] NoIdentifierTwice(store.pendingActions)
    /\ [][obs'.call = "removePendingAction" /\ obs'.result = "absent"
              => store' = store]_vars

\* a thunk's pending action was dispatched while the identifier of that
\* thunk, an earlier call of which has not settled, and the application's
\* were in pendingActions
C39_OverlappingThunksAndOwnIdentifier ==
    /\ obs.call = "loadTranslationsAsync"
    /\ Len(promises) > 1
    /\ promises[1].op = "loadTranslationsAsync"
    /\ promises[1].st = "pending"
    /\ Range(store.pendingActions) = {"test-action", "loadTranslations"}

====
